---- MODULE Spec2Model ----
(***************************************************************************)
(* A model of the conversion engine of package conv (cmstar/go-conv).      *)
(*                                                                         *)
(* Representation.                                                         *)
(*   - A Go string is a sequence of one-rune strings: "V1" is <<"V","1">>. *)
(*   - A reflect.Type is a record with a kind k; named and primitive types *)
(*     carry a name n, composite types their element types.                *)
(*   - A Go value is a record [t |-> its dynamic type, v |-> its payload]. *)
(*     The nil interface value is NilV.  A slot of static type interface{} *)
(*     holds the dynamic value itself (or NilV).                           *)
(*   - Payloads: bool -> BOOLEAN; integers -> Int; floats -> Int counting  *)
(*     halves (3 is 1.5), numbers of 32 and more bits written as Wide(e,   *)
(*     d); string -> sequence of runes; time -> [sec, nsec,                *)
(*     loc]; pointer -> [id, to] with to = <<>> for nil and <<target>>     *)
(*     otherwise; slice -> [id, nil, e]; map -> [id, nil, m] with m a set  *)
(*     of [k, v] entries; struct -> sequence of field values.              *)
(*   - id is the identity of the allocation behind a pointer, slice or     *)
(*     map: "src" for memory the caller owns, "new" for memory allocated   *)
(*     by the conversion (reflect.New, reflect.MakeSlice, reflect.MakeMap).*)
(*   - An outcome is [st, val, err]: st is "ok", "err" (an error value was *)
(*     returned) or "panic" (the call did not return).  An error message   *)
(*     is a sequence of string tokens whose concatenation is the text.     *)
(***************************************************************************)
EXTENDS Integers, Sequences, FiniteSets, TLC

----------------------------------------------------------------------------
(* Types *)

PrimType(k) == [k |-> k, n |-> k]
TBool == PrimType("bool")
TInt == PrimType("int")
TString == PrimType("string")
TFromString == [k |-> "string", n |-> "FromString"]
typTime == [k |-> "struct", n |-> "time.Time"]
TMyTime == [k |-> "struct", n |-> "MyTime"]
typEmptyInterface == [k |-> "interface", n |-> "interface {}"]
TChan == [k |-> "chan", n |-> "chan int"]
TInvalid == [k |-> "invalid", n |-> "<nil>"]

PtrTo(T) == [k |-> "ptr", elem |-> T]
SliceOf(T) == [k |-> "slice", elem |-> T]
MapOf(K, V) == [k |-> "map", key |-> K, elem |-> V]
TStruct(name) == [k |-> "struct", n |-> name]
typStringMap == MapOf(TString, typEmptyInterface)

RECURSIVE PtrN(_, _)
PtrN(d, T) == IF d = 0 THEN T ELSE PtrTo(PtrN(d - 1, T))

RECURSIVE TypeName(_)
TypeName(T) ==
    CASE T.k = "ptr" -> "*" \o TypeName(T.elem)
      [] T.k = "slice" -> "[]" \o TypeName(T.elem)
      [] T.k = "map" -> "map[" \o TypeName(T.key) \o "]" \o TypeName(T.elem)
      [] OTHER -> T.n

isKindInt(k) == k \in {"int", "int8", "int16", "int32", "int64"}
isKindUint(k) == k \in {"uint", "uint8", "uint16", "uint32", "uint64"}
isKindFloat(k) == k \in {"float32", "float64"}

IsPrimitiveKind(k) == k = "bool" \/ isKindInt(k) \/ isKindUint(k) \/ isKindFloat(k) \/ k = "string"

IsPrimitiveType(T) == T # TInvalid /\ IsPrimitiveKind(T.k)

(* t.ConvertibleTo(typTime): time.Time itself and every defined type whose *)
(* underlying type is that of time.Time.                                   *)
ConvertibleToTime(T) == T \in {typTime, TMyTime}

IsSimpleType(T) == IF T = TInvalid THEN FALSE ELSE IsPrimitiveType(T) \/ ConvertibleToTime(T)

----------------------------------------------------------------------------
(* Values and outcomes *)

Mk(T, p) == [t |-> T, v |-> p]
NilV == Mk(TInvalid, 0)
IsNil(x) == x.t = TInvalid

IntV(n) == Mk(TInt, n)
StrV(s) == Mk(TString, s)
TimeV(sec, nsec, loc) == Mk(typTime, [sec |-> sec, nsec |-> nsec, loc |-> loc])
zeroTime == TimeV(0, 0, "UTC")

PtrAs(T, id, x) == Mk(T, [id |-> id, to |-> <<x>>])
PtrV(id, x) == PtrAs(PtrTo(x.t), id, x)
SliceV(T, id, es) == Mk(T, [id |-> id, nil |-> FALSE, e |-> es])
MapV(T, id, entries) == Mk(T, [id |-> id, nil |-> FALSE, m |-> entries])
Ent(key, val) == [k |-> key, v |-> val]

IsNilPtr(x) == x.t.k = "ptr" /\ x.v.to = <<>>

Ok(x) == [st |-> "ok", val |-> x, err |-> <<>>]
Err(msg) == [st |-> "err", val |-> NilV, err |-> msg]
Panic(msg) == [st |-> "panic", val |-> NilV, err |-> msg]

errForFunction(fn, msg) == <<"conv." \o fn \o ": ">> \o msg
errSourceShouldNotBeNil(fnName) == errForFunction(fnName, <<"the source value should not be nil">>)

(* fmt.Sprintf(format) without operands, for a format in which a % is      *)
(* followed by runes of the model's alphabet: flags, width and precision    *)
(* are skipped, "%%" gives "%", any other verb has no operand and a % at    *)
(* the end has no verb.                                                     *)
RECURSIVE Sprintf(_)
Sprintf(format) ==
    LET RECURSIVE verbAt(_)
        verbAt(i) == IF i <= Len(format) /\ format[i] \in {"#", "0", "+", "-", " ", ".", "1", "2", "3", "4", "5", "6", "7", "8", "9"}
                     THEN verbAt(i + 1) ELSE i
        directive(i) ==
            IF i > Len(format) THEN <<"%!(NOVERB)">>
            ELSE (IF format[i] = "%" THEN <<"%">> ELSE <<"%!", format[i], "(MISSING)">>)
                 \o Sprintf(SubSeq(format, i + 1, Len(format)))
    IN  IF format = <<>> THEN <<>>
        ELSE IF format[1] # "%" THEN <<format[1]>> \o Sprintf(Tail(format))
        ELSE directive(verbAt(2))

(* Wrap a failed outcome's message with the name of the reporting function; *)
(* a panic passes through untouched.  Without a text of its own the         *)
(* function hands the message to errForFunction as the format.              *)
WrapErr(fn, pre, o) ==
    IF o.st # "err" THEN o
    ELSE IF pre = <<>> THEN Err(errForFunction(fn, Sprintf(o.err)))
    ELSE Err(errForFunction(fn, pre \o o.err))

----------------------------------------------------------------------------
(* strconv and fmt for the runes of the model's alphabet *)

Digits == <<"0", "1", "2", "3", "4", "5", "6", "7", "8", "9">>
DigitVal(c) == (CHOOSE i \in 1..10 : Digits[i] = c) - 1
AllDigits(s) == \A i \in 1..Len(s) : \E j \in 1..10 : Digits[j] = s[i]

(* Numbers of 32 and more bits.  The integers of the checker have 32 bits, *)
(* so a number of magnitude 2^e + d, for e in 31..64 and d within a few    *)
(* thousand of zero, is written Wide(e, d) and its negative 0 - Wide(e, d):*)
(* the numerals keep the order of the numbers they stand for, among each   *)
(* other and with the numbers below 2^24 written as themselves.  A float   *)
(* written this way is a whole number (every float64 from 2^53 on is, and  *)
(* no other is used); Wide(65, 0) stands for the float +Inf.               *)
WideUnit == 16777216
Wide(e, d) == e * WideUnit + d
IsWide(n) == n >= 25 * WideUnit \/ 0 - n >= 25 * WideUnit
WideExp(n) == (n + WideUnit \div 2) \div WideUnit
WideOff(n) == n - WideExp(n) * WideUnit
Inf == Wide(65, 0)

(* The decimal digits of 2^e. *)
Pow2Digits(e) ==
    CASE e = 31 -> <<2, 1, 4, 7, 4, 8, 3, 6, 4, 8>>
      [] e = 32 -> <<4, 2, 9, 4, 9, 6, 7, 2, 9, 6>>
      [] e = 63 -> <<9, 2, 2, 3, 3, 7, 2, 0, 3, 6, 8, 5, 4, 7, 7, 5, 8, 0, 8>>
      [] e = 64 -> <<1, 8, 4, 4, 6, 7, 4, 4, 0, 7, 3, 7, 0, 9, 5, 5, 1, 6, 1, 6>>

(* The digits of the number with digits ds, plus d. *)
RECURSIVE AddToDigits(_, _)
AddToDigits(ds, d) ==
    IF d = 0 \/ ds = <<>> THEN ds
    ELSE AddToDigits(SubSeq(ds, 1, Len(ds) - 1), (ds[Len(ds)] + d) \div 10) \o <<(ds[Len(ds)] + d) % 10>>

FormatWideNat(n) == [i \in DOMAIN Pow2Digits(WideExp(n)) |-> Digits[AddToDigits(Pow2Digits(WideExp(n)), WideOff(n))[i] + 1]]

RECURSIVE FormatNat(_)
FormatNat(n) ==
    IF IsWide(n) THEN FormatWideNat(n)
    ELSE IF n < 10 THEN <<Digits[n + 1]>> ELSE FormatNat(n \div 10) \o <<Digits[(n % 10) + 1]>>

FormatInt(n) == IF n < 0 THEN <<"-">> \o FormatNat(0 - n) ELSE FormatNat(n)

(* The shortest decimal text of the whole floats written as Wide(e, d). *)
FormatWideFloat(a) ==
    CASE a = Wide(31, -1) -> <<"2.147483647e+09">>
      [] a = Wide(31, 0) -> <<"2.147483648e+09">>
      [] a = Wide(31, 1) -> <<"2.147483649e+09">>
      [] a = Wide(32, -1) -> <<"4.294967295e+09">>
      [] a = Wide(32, 0) -> <<"4.294967296e+09">>
      [] a = Wide(63, -1024) -> <<"9.223372036854775e+18">>
      [] a = Wide(63, 0) -> <<"9.223372036854776e+18">>
      [] a = Wide(63, 2048) -> <<"9.223372036854778e+18">>
      [] a = Wide(64, -2048) -> <<"1.844674407370955e+19">>
      [] a = Wide(64, 0) -> <<"1.8446744073709552e+19">>
      [] a = Wide(64, 4096) -> <<"1.8446744073709556e+19">>
      [] a = Inf -> <<"Inf">>

(* strconv.FormatFloat(f, 'g', -1, 64) as used by fmt.Sprint, for halves  *)
(* below 10^6 and for the whole floats from 2^31 on; fmt writes +Inf.     *)
FormatFloat(h) ==
    LET digits(a) == IF IsWide(a) THEN FormatWideFloat(a)
                     ELSE IF a % 2 = 0 THEN FormatNat(a \div 2) ELSE FormatNat(a \div 2) \o <<".", "5">>
    IN  IF h < 0 THEN <<"-">> \o digits(0 - h) ELSE IF h = Inf THEN <<"+">> \o digits(h) ELSE digits(h)

RECURSIVE DigitsValue(_, _)
DigitsValue(s, base) ==
    IF s = <<>> THEN 0 ELSE DigitsValue(SubSeq(s, 1, Len(s) - 1), base) * base + DigitVal(s[Len(s)])

(* The unsigned body of an integer literal with base 0: a leading "0"     *)
(* followed by more digits selects base 8.  Returns -1 on a syntax error. *)
ParseBody(s) ==
    IF s = <<>> \/ ~AllDigits(s) THEN -1
    ELSE IF Len(s) > 1 /\ s[1] = "0"
         THEN IF \E i \in 2..Len(s) : DigitVal(s[i]) > 7 THEN -1
              ELSE DigitsValue(Tail(s), 8)
         ELSE DigitsValue(s, 10)

Quote(s) == <<"\"">> \o s \o <<"\"">>
errSyntax(fn, s) == <<"strconv." \o fn \o ": parsing ">> \o Quote(s) \o <<": invalid syntax">>

(* strconv.ParseInt(s, 0, 64) *)
ParseInt(s) ==
    LET result(n) == IF n < 0 THEN Err(errSyntax("ParseInt", s))
                     ELSE Ok(Mk(PrimType("int64"), IF s[1] = "-" THEN 0 - n ELSE n))
    IN  result(ParseBody(IF s # <<>> /\ s[1] \in {"-", "+"} THEN Tail(s) ELSE s))

(* strconv.ParseUint(s, 0, 64): no sign is accepted. *)
ParseUint(s) ==
    LET result(n) == IF n < 0 THEN Err(errSyntax("ParseUint", s)) ELSE Ok(Mk(PrimType("int64"), n))
    IN  result(ParseBody(s))

(* strconv.ParseFloat(s, 64) for decimal literals with at most the        *)
(* fraction ".5" or ".0"; the value is returned in halves.                *)
ParseFloat(s) ==
    LET value(neg, ip, fp) ==
            IF ~(AllDigits(ip) /\ AllDigits(fp) /\ (ip # <<>> \/ fp # <<>>) /\ fp \in {<<>>, <<"0">>, <<"5">>})
            THEN Err(errSyntax("ParseFloat", s))
            ELSE Ok(Mk(PrimType("float64"),
                       (IF neg THEN -1 ELSE 1) * (2 * DigitsValue(ip, 10) + (IF fp = <<"5">> THEN 1 ELSE 0))))
        split(body, dot) ==
            value(s[1] = "-",
                  IF dot = 0 THEN body ELSE SubSeq(body, 1, dot - 1),
                  IF dot = 0 THEN <<>> ELSE SubSeq(body, dot + 1, Len(body)))
        unsigned(body) ==
            split(body, IF \E i \in 1..Len(body) : body[i] = "." THEN CHOOSE i \in 1..Len(body) : body[i] = "." ELSE 0)
    IN  IF s = <<>> THEN Err(errSyntax("ParseFloat", s))
        ELSE unsigned(IF s[1] \in {"-", "+"} THEN Tail(s) ELSE s)

(* strconv.ParseBool *)
ParseBool(s) ==
    IF s \in {<<"1">>, <<"t">>, <<"T">>, <<"t", "r", "u", "e">>, <<"T", "R", "U", "E">>, <<"T", "r", "u", "e">>}
    THEN Ok(Mk(TBool, TRUE))
    ELSE IF s \in {<<"0">>, <<"f">>, <<"F">>, <<"f", "a", "l", "s", "e">>, <<"F", "A", "L", "S", "E">>, <<"F", "a", "l", "s", "e">>}
    THEN Ok(Mk(TBool, FALSE))
    ELSE Err(errSyntax("ParseBool", s))

----------------------------------------------------------------------------
(* conv_primitive.go: conversions between booleans, strings and numbers *)

(* %v of a value *)
FormatV(x) ==
    CASE x.t.k = "string" -> x.v
      [] x.t.k = "bool" -> IF x.v THEN <<"true">> ELSE <<"false">>
      [] isKindFloat(x.t.k) -> FormatFloat(x.v)
      [] isKindInt(x.t.k) \/ isKindUint(x.t.k) -> FormatInt(x.v)
      [] OTHER -> <<TypeName(x.t)>>

(* %#v of a value: as %v, a string quoted *)
GoSyntax(x) == IF x.t.k = "string" THEN Quote(x.v) ELSE FormatV(x)

errCantConvertTo(x, dstType) == <<"cannot convert ">> \o GoSyntax(x) \o <<" (", TypeName(x.t), ") to ", dstType>>
errValueOverflow(x, dstType) == <<"value overflow when converting ">> \o GoSyntax(x) \o <<" (", TypeName(x.t), ") to ", dstType>>
errPrecisionLoss(x, dstType) == <<"lost precision when converting ">> \o GoSyntax(x) \o <<" (", TypeName(x.t), ") to ", dstType>>

(* The ranges of the integer kinds.  int and uint are 64 bits wide         *)
(* (utils.go init), so minInt, maxInt and maxUint are the bounds of int64  *)
(* and uint64, which every int64 or uint64 of the wide conversion step is  *)
(* within.                                                                 *)
MinInt8 == -128
MaxInt8 == 127
MinInt16 == -32768
MaxInt16 == 32767
MinInt32 == 0 - Wide(31, 0)
MaxInt32 == Wide(31, -1)
MinInt64 == 0 - Wide(63, 0)
MaxInt64 == Wide(63, -1)
MaxUint8 == 255
MaxUint16 == 65535
MaxUint32 == Wide(32, -1)
MaxUint64 == Wide(64, -1)

(* The float64 an untyped integer constant becomes in a comparison with a *)
(* float64: the nearest one.  math.MinInt64 is a float64, math.MaxInt64    *)
(* becomes 2^63 and math.MaxUint64 becomes 2^64.                           *)
FloatOfMinInt64 == 0 - Wide(63, 0)
FloatOfMaxInt64 == Wide(63, 0)
FloatOfMaxUint64 == Wide(64, 0)

(* The architecture the program was built for.  The result of converting   *)
(* a float to an integer type that cannot hold it depends on it.           *)
VARIABLE goarch
GoArchs == {"amd64", "arm64"}

(* int64(f) and uint64(f) for the one float that passes the range test    *)
(* and is beyond the type: the conversion instruction of amd64 yields the  *)
(* pattern 1 << 63, that of arm64 saturates.                               *)
Int64OfFloatMaxInt64 == IF goarch = "amd64" THEN MinInt64 ELSE MaxInt64
Uint64OfFloatMaxUint64 == IF goarch = "amd64" THEN Wide(63, 0) ELSE MaxUint64

(* A narrowing step that tests nothing. *)
InIntRangeUntested(k, num) == TRUE

InIntRange(k, num) ==
    CASE k = "int8" -> ~(num < MinInt8 \/ num > MaxInt8)
      [] k = "int16" -> ~(num < MinInt16 \/ num > MaxInt16)
      [] k = "int32" -> ~(num < MinInt32 \/ num > MaxInt32)
      [] OTHER -> TRUE

InUintRange(k, num) ==
    CASE k = "uint8" -> ~(num > MaxUint8)
      [] k = "uint16" -> ~(num > MaxUint16)
      [] k = "uint32" -> ~(num > MaxUint32)
      [] OTHER -> TRUE

toBool(x) ==
    CASE x.t.k = "string" -> ParseBool(x.v)
      [] x.t.k = "bool" -> Ok(Mk(TBool, x.v))
      [] isKindInt(x.t.k) \/ isKindUint(x.t.k) \/ isKindFloat(x.t.k) -> Ok(Mk(TBool, x.v # 0))
      [] OTHER -> Err(errCantConvertTo(x, "bool"))

toString(x) ==
    CASE x.t.k = "bool" /\ x.t = TBool -> IF x.v THEN <<"1">> ELSE <<"0">>
      [] x.t.k = "bool" /\ x.t # TBool -> IF x.v THEN <<"true">> ELSE <<"false">>
      [] x.t.k = "string" -> x.v
      [] isKindFloat(x.t.k) -> FormatFloat(x.v)
      [] OTHER -> FormatInt(x.v)

doFloat64ToInt64(f, dstType) ==
    IF f < FloatOfMinInt64 \/ f > FloatOfMaxInt64 THEN Err(errValueOverflow(Mk(PrimType("float64"), f), dstType))
    ELSE IF ~IsWide(f) /\ f % 2 # 0 THEN Err(errPrecisionLoss(Mk(PrimType("float64"), f), dstType))
    ELSE Ok(Mk(PrimType("int64"),
               IF f = FloatOfMaxInt64 THEN Int64OfFloatMaxInt64 ELSE IF IsWide(f) THEN f ELSE f \div 2))

doPrimitiveToInt64(x, dstType) ==
    CASE x.t.k = "string" -> ParseInt(x.v)
      [] x.t.k = "bool" -> Ok(Mk(PrimType("int64"), IF x.v THEN 1 ELSE 0))
      [] isKindInt(x.t.k) -> Ok(Mk(PrimType("int64"), x.v))
      [] isKindUint(x.t.k) -> IF x.v > MaxInt64 THEN Err(errValueOverflow(x, dstType)) ELSE Ok(Mk(PrimType("int64"), x.v))
      [] isKindFloat(x.t.k) -> doFloat64ToInt64(x.v, dstType)
      [] OTHER -> Err(errCantConvertTo(x, dstType))

toIntKind(x, k) ==
    LET narrow(r) == IF r.st # "ok" THEN r
                     ELSE IF ~InIntRange(k, r.val.v) THEN Err(errValueOverflow(x, k))
                     ELSE Ok(Mk(PrimType(k), r.val.v))
    IN  narrow(doPrimitiveToInt64(x, k))

(* The conversion without its test for a fractional part. *)
doFloatToUintTruncating(f, dstType) ==
    IF f < 0 \/ f > FloatOfMaxUint64 THEN Err(errValueOverflow(Mk(PrimType("float64"), f), dstType))
    ELSE Ok(Mk(PrimType("int64"), IF IsWide(f) THEN f ELSE f \div 2))

doFloatToUint(f, dstType) ==
    IF f < 0 \/ f > FloatOfMaxUint64 THEN Err(errValueOverflow(Mk(PrimType("float64"), f), dstType))
    ELSE IF ~IsWide(f) /\ f % 2 # 0 THEN Err(errPrecisionLoss(Mk(PrimType("float64"), f), dstType))
    ELSE Ok(Mk(PrimType("int64"),
               IF f = FloatOfMaxUint64 THEN Uint64OfFloatMaxUint64 ELSE IF IsWide(f) THEN f ELSE f \div 2))

doPrimitiveToUint64(x, dstType) ==
    CASE x.t.k = "string" -> ParseUint(x.v)
      [] x.t.k = "bool" -> Ok(Mk(PrimType("int64"), IF x.v THEN 1 ELSE 0))
      [] isKindInt(x.t.k) -> IF x.v < 0 THEN Err(errValueOverflow(x, dstType)) ELSE Ok(Mk(PrimType("int64"), x.v))
      [] isKindUint(x.t.k) -> Ok(Mk(PrimType("int64"), x.v))
      [] isKindFloat(x.t.k) -> doFloatToUint(x.v, dstType)
      [] OTHER -> Err(errCantConvertTo(x, dstType))

toUintKind(x, k) ==
    LET narrow(r) == IF r.st # "ok" THEN r
                     ELSE IF ~InUintRange(k, r.val.v) THEN Err(errValueOverflow(x, k))
                     ELSE Ok(Mk(PrimType(k), r.val.v))
    IN  narrow(doPrimitiveToUint64(x, k))

doPrimitiveToFloat64(x, dstType) ==
    CASE x.t.k = "string" -> ParseFloat(x.v)
      [] x.t.k = "bool" -> Ok(Mk(PrimType("float64"), IF x.v THEN 2 ELSE 0))
      [] isKindInt(x.t.k) \/ isKindUint(x.t.k) -> Ok(Mk(PrimType("float64"), 2 * x.v))
      [] isKindFloat(x.t.k) -> Ok(Mk(PrimType("float64"), x.v))
      [] OTHER -> Err(errCantConvertTo(x, dstType))

toFloatKind(x, k) ==
    LET narrow(r) == IF r.st # "ok" THEN r ELSE Ok(Mk(PrimType(k), r.val.v))
    IN  narrow(doPrimitiveToFloat64(x, k))

toPrimitive(x, dstKind) ==
    CASE dstKind = "bool" -> toBool(x)
      [] dstKind = "string" -> Ok(StrV(toString(x)))
      [] isKindInt(dstKind) -> toIntKind(x, dstKind)
      [] isKindUint(dstKind) -> toUintKind(x, dstKind)
      [] isKindFloat(dstKind) -> toFloatKind(x, dstKind)
      [] OTHER -> Panic(<<"not a primitive type">>)

----------------------------------------------------------------------------
(* conv.go: configuration and the simple conversions.                      *)
(* The RFC 3339 text of a time is abstracted to the decimal Unix second    *)
(* followed by one rune for the zone offset ("Z" for UTC, "L" for Local,   *)
(* "F" for a fixed zone); like the real format it has no place for the     *)
(* nanoseconds.                                                            *)

RECURSIVE SplitComma(_, _)
SplitComma(s, cur) ==
    IF s = <<>> THEN <<cur>>
    ELSE IF Head(s) = "," THEN <<cur>> \o SplitComma(Tail(s), <<>>)
    ELSE SplitComma(Tail(s), Append(cur, Head(s)))

(* Conf.StringSplitter: nil keeps the string whole; "comma" stands for a  *)
(* caller-supplied strings.Split(v, ",").                                 *)
doSplitString(c, s) == IF c.splitter = "nil" THEN <<s>> ELSE SplitComma(s, <<>>)

(* Conf.TimeToString is nil: DefaultTimeToString. *)
doTimeToString(c, t) ==
    Ok(StrV(FormatInt(t.v.sec) \o <<CASE t.v.loc = "UTC" -> "Z" [] t.v.loc = "Local" -> "L" [] OTHER -> "F">>))

(* Conf.StringToTime is nil: DefaultStringToTime. *)
doStringToTime(c, s) ==
    LET parse(zone, neg, mag) ==
            IF ~(zone \in {"Z", "L", "F"} /\ mag # <<>> /\ AllDigits(mag))
            THEN Err(<<"parsing time ">> \o Quote(s) \o <<": cannot parse">>)
            ELSE Ok(TimeV((IF neg THEN -1 ELSE 1) * DigitsValue(mag, 10), 0,
                          CASE zone = "Z" -> "UTC" [] zone = "L" -> "Local" [] OTHER -> "Fixed"))
    IN  IF Len(s) < 2 THEN Err(<<"parsing time ">> \o Quote(s) \o <<": cannot parse">>)
        ELSE parse(s[Len(s)], s[1] = "-",
                   IF s[1] = "-" THEN SubSeq(s, 2, Len(s) - 1) ELSE SubSeq(s, 1, Len(s) - 1))

simpleToTime(c, src) ==
    LET fromUnix(ts) == IF ts.st # "ok" THEN ts ELSE Ok(TimeV(ts.val.v, 0, "Local"))
    IN  IF src.t = typTime THEN Ok(src)
        ELSE IF src.t.k = "string"
        THEN IF src.t # TString
             THEN Panic(<<"interface conversion: interface {} is ", TypeName(src.t), ", not string">>)
             ELSE doStringToTime(c, src.v)
        ELSE IF IsPrimitiveType(src.t) THEN fromUnix(toPrimitive(src, "int64"))
        ELSE Err(errCantConvertTo(src, "time.Time"))

simpleToPrimitive(c, src, dstKind) ==
    IF src.t = typTime /\ dstKind = "string" THEN doTimeToString(c, src)
    ELSE IF IsPrimitiveType(src.t) \/ (src.t = typTime /\ IsPrimitiveKind(dstKind))
    THEN toPrimitive(IF src.t = typTime THEN Mk(PrimType("int64"), src.v.sec) ELSE src, dstKind)
    ELSE Err(<<"cannot convert from ", TypeName(src.t), " to ", dstKind>>)

SimpleToBool(c, simple) ==
    IF IsNil(simple) THEN Ok(Mk(TBool, FALSE))
    ELSE IF IsPrimitiveType(simple.t) THEN WrapErr("SimpleToBool", <<>>, toBool(simple))
    ELSE IF simple.t = typTime THEN Ok(Mk(TBool, simple.v.sec # 0))
    ELSE Err(errForFunction("SimpleToBool", <<"cannot convert ", TypeName(simple.t), " to bool">>))

SimpleToSimple(c, src, dstTyp) ==
    LET result(r) == IF r.st = "err" THEN Err(errForFunction("SimpleToSimple", r.err))
                     ELSE IF r.st = "panic" THEN r
                     ELSE Ok(Mk(dstTyp, r.val.v))
    IN  IF IsNil(src) THEN Err(errSourceShouldNotBeNil("SimpleToSimple"))
        ELSE IF IsPrimitiveKind(dstTyp.k) THEN result(simpleToPrimitive(c, src, dstTyp.k))
        ELSE IF ConvertibleToTime(dstTyp) THEN result(simpleToTime(c, src))
        ELSE Err(errForFunction("SimpleToSimple", <<"cannot convert from ", TypeName(src.t), " to ", TypeName(dstTyp)>>))

----------------------------------------------------------------------------
(* The struct types of the model: reflect.Type.Field(i) for i in 1..NumField. *)
(* PkgPath is TRUE for an unexported field; Tag holds the field's one tag.    *)
(*   P1 {A int; B string}            P2 {A int; in int}                       *)
(*   PT {W time.Time; N FromString}  Q  {P *int; I interface{}}               *)
(*   E  {V1 int}                     T  {E; V2 string}                        *)
(*   R  {S []int; M map[string]int; N P1}                                     *)
(* The types of Test_simpleMatcher_withEmbeddedStruct ("hide"):               *)
(*   HA {V1, V2, V3 int}   HB {HA; V1 string}   HC {HB; V2 float64}           *)
(* of Test_fieldWalker_WalkFields ("without-tag", "with-tag"):                *)
(*   Ec {D int; x int}     Eb {B int; Ec; C int}                              *)
(*   WT {A int; Eb `conv:"X"`; B string; Ec}                                  *)
(*   TA {A int; X int}     TB {B1 int; B2 int}                                *)
(*   TT {*TA; s int `c:"V"`; TB `c:"X"`}                                      *)
(* a type whose field names differ in case and underscores only:              *)
(*   F  {aa int; Aa int; AA string; A_a bool; X float64 `c:"a_A"`}            *)
(* a type with one tag value on two fields and a tag naming another field:    *)
(*   U  {A int `c:"X"`; B string `c:"X"`; C bool; Uc}   Uc {K int `c:"C"`}    *)
(* and a chain of embedded types:                                             *)
(*   D1 {D2}   D2 {D3; K int `c:"k"`}   D3 {D4}   D4 {X int; Y string}        *)

Fld(name, typ) ==
    [Name |-> name, Type |-> typ, PkgPath |-> FALSE, Anonymous |-> FALSE, Tag |-> [key |-> <<>>, val |-> <<>>]]

Unexported(name, typ) == [Fld(name, typ) EXCEPT !.PkgPath = TRUE]
Embedded(name, typ) == [Fld(name, typ) EXCEPT !.Anonymous = TRUE]
Tagged(f, key, val) == [f EXCEPT !.Tag = [key |-> key, val |-> val]]

StructFields(T) ==
    CASE T = TStruct("P1") -> <<Fld(<<"A">>, TInt), Fld(<<"B">>, TString)>>
      [] T = TStruct("P2") -> <<Fld(<<"A">>, TInt), [Fld(<<"i", "n">>, TInt) EXCEPT !.PkgPath = TRUE]>>
      [] T = TStruct("PT") -> <<Fld(<<"W">>, typTime), Fld(<<"N">>, TFromString)>>
      [] T = TStruct("Q") -> <<Fld(<<"P">>, PtrTo(TInt)), Fld(<<"I">>, typEmptyInterface)>>
      [] T = TStruct("E") -> <<Fld(<<"V", "1">>, TInt)>>
      [] T = TStruct("PN") -> <<Fld(<<"I", "n">>, PtrTo(TStruct("E"))), Fld(<<"P", "P">>, PtrTo(PtrTo(TInt)))>>
      [] T = TStruct("T") -> <<[Fld(<<"E">>, TStruct("E")) EXCEPT !.Anonymous = TRUE], Fld(<<"V", "2">>, TString)>>
      [] T = TStruct("R") ->
            <<Fld(<<"S">>, SliceOf(TInt)), Fld(<<"M">>, MapOf(TString, TInt)), Fld(<<"N">>, TStruct("P1"))>>
      [] T = TStruct("HA") -> <<Fld(<<"V", "1">>, TInt), Fld(<<"V", "2">>, TInt), Fld(<<"V", "3">>, TInt)>>
      [] T = TStruct("HB") -> <<Embedded(<<"H", "A">>, TStruct("HA")), Fld(<<"V", "1">>, TString)>>
      [] T = TStruct("HC") -> <<Embedded(<<"H", "B">>, TStruct("HB")), Fld(<<"V", "2">>, PrimType("float64"))>>
      [] T = TStruct("Ec") -> <<Fld(<<"D">>, TInt), Unexported(<<"x">>, TInt)>>
      [] T = TStruct("Eb") -> <<Fld(<<"B">>, TInt), Embedded(<<"E", "c">>, TStruct("Ec")), Fld(<<"C">>, TInt)>>
      [] T = TStruct("WT") ->
            <<Fld(<<"A">>, TInt), Tagged(Embedded(<<"E", "b">>, TStruct("Eb")), <<"c", "o", "n", "v">>, <<"X">>),
              Fld(<<"B">>, TString), Embedded(<<"E", "c">>, TStruct("Ec"))>>
      [] T = TStruct("TA") -> <<Fld(<<"A">>, TInt), Fld(<<"X">>, TInt)>>
      [] T = TStruct("TB") -> <<Fld(<<"B", "1">>, TInt), Fld(<<"B", "2">>, TInt)>>
      [] T = TStruct("TT") ->
            <<Embedded(<<"T", "A">>, PtrTo(TStruct("TA"))), Tagged(Unexported(<<"s">>, TInt), <<"c">>, <<"V">>),
              Tagged(Embedded(<<"T", "B">>, TStruct("TB")), <<"c">>, <<"X">>)>>
      [] T = TStruct("F") ->
            <<Unexported(<<"a", "a">>, TInt), Fld(<<"A", "a">>, TInt), Fld(<<"A", "A">>, TString),
              Fld(<<"A", "_", "a">>, TBool), Tagged(Fld(<<"X">>, PrimType("float64")), <<"c">>, <<"a", "_", "A">>)>>
      [] T = TStruct("U") ->
            <<Tagged(Fld(<<"A">>, TInt), <<"c">>, <<"X">>), Tagged(Fld(<<"B">>, TString), <<"c">>, <<"X">>),
              Fld(<<"C">>, TBool), Embedded(<<"U", "c">>, TStruct("Uc"))>>
      [] T = TStruct("Uc") -> <<Tagged(Fld(<<"K">>, TInt), <<"c">>, <<"C">>)>>
      [] T = TStruct("D1") -> <<Embedded(<<"D", "2">>, TStruct("D2"))>>
      [] T = TStruct("D2") -> <<Embedded(<<"D", "3">>, TStruct("D3")), Tagged(Fld(<<"K">>, TInt), <<"c">>, <<"k">>)>>
      [] T = TStruct("D3") -> <<Embedded(<<"D", "4">>, TStruct("D4"))>>
      [] T = TStruct("D4") -> <<Fld(<<"X">>, TInt), Fld(<<"Y">>, TString)>>
      [] T \in {typTime, TMyTime} ->
            [i \in 1..3 |-> [Fld(<<<<"w", "a", "l", "l">>, <<"e", "x", "t">>, <<"l", "o", "c">>>>[i], PrimType("int64"))
                               EXCEPT !.PkgPath = TRUE]]
      [] OTHER -> <<>>

NumField(T) == Len(StructFields(T))
TagGet(f, tagName) == IF tagName # <<>> /\ f.Tag.key = tagName THEN f.Tag.val ELSE <<>>

(* reflect.Zero.  time.Time keeps its own payload; its fields are         *)
(* unexported and never read by this package.                             *)
RECURSIVE Zero(_)
Zero(T) ==
    CASE T.k = "bool" -> Mk(T, FALSE)
      [] T.k = "string" -> Mk(T, <<>>)
      [] T.k = "ptr" -> Mk(T, [id |-> "new", to |-> <<>>])
      [] T.k = "slice" -> Mk(T, [id |-> "new", nil |-> TRUE, e |-> <<>>])
      [] T.k = "map" -> Mk(T, [id |-> "new", nil |-> TRUE, m |-> {}])
      [] T.k = "interface" -> NilV
      [] T.k = "chan" -> Mk(T, 0)
      [] T \in {typTime, TMyTime} -> Mk(T, zeroTime.v)
      [] T.k = "struct" -> LET zeros(fs) == [i \in DOMAIN fs |-> Zero(fs[i].Type)] IN Mk(T, zeros(StructFields(T)))
      [] OTHER -> Mk(T, 0)

----------------------------------------------------------------------------
(* FieldWalker.  A []int index is [v |-> positions, cap |-> capacity of  *)
(* its backing array]: append writes in place while the capacity allows  *)
(* and otherwise moves to a new array of the doubled capacity.           *)

AppendInPlace(ix) == Len(ix.v) < ix.cap
AppendIndex(ix, i) ==
    [v |-> Append(ix.v, i), cap |-> IF AppendInPlace(ix) THEN ix.cap ELSE IF ix.cap = 0 THEN 1 ELSE 2 * ix.cap]

FieldInfo(f, index, path, tag) ==
    [Name |-> f.Name, Type |-> f.Type, PkgPath |-> f.PkgPath, Anonymous |-> f.Anonymous,
     Tag |-> f.Tag, Index |-> index, Path |-> path, TagValue |-> tag]

RECURSIVE StripPtr(_)
StripPtr(T) == IF T.k = "ptr" THEN StripPtr(T.elem) ELSE T

(* First loop of traverseOne: the tagged fields among fs, from field i on. *)
RECURSIVE walkTagged(_, _, _, _)
walkTagged(fs, tagName, i, acc) ==
    LET visit(f, tag) ==
            IF f.PkgPath \/ tag = <<>> THEN acc
            ELSE [fields |-> Append(acc.fields, FieldInfo(f, [v |-> <<i>>, cap |-> 1], f.Name, tag)),
                  visited |-> acc.visited \cup {tag},
                  tagged |-> acc.tagged \cup {i}]
    IN  IF i > Len(fs) THEN acc
        ELSE walkTagged(fs, tagName, i + 1, visit(fs[i], TagGet(fs[i], tagName)))

(* Second loop of traverseOne: the untagged fields among fs.  made and     *)
(* queued are the entries this loop created; last is the position written  *)
(* last.                                                                   *)
RECURSIVE walkUntagged(_, _, _, _)
walkUntagged(buf, fs, i, acc) ==
    LET visit(f, index, path) ==
            IF i \in acc.tagged \/ f.PkgPath \/ f.Name \in acc.visited THEN acc
            ELSE IF f.Anonymous /\ StripPtr(f.Type).k = "struct"
            THEN [acc EXCEPT !.queued = Append(@, [Index |-> index, Path |-> path, Type |-> StripPtr(f.Type)]),
                             !.last = i]
            ELSE [acc EXCEPT !.made = Append(@, FieldInfo(f, index, path, <<>>)),
                             !.visited = @ \cup {f.Name},
                             !.last = i]
    IN  IF i > Len(fs) THEN acc
        ELSE walkUntagged(buf, fs, i + 1,
                visit(fs[i], AppendIndex(buf.Index, i),
                      IF buf.Path # <<>> THEN buf.Path \o <<".">> \o fs[i].Name ELSE fs[i].Name))

(* The entries appended in place share one backing array, so each of them *)
(* ends in the position that was written last.                            *)
Alias(buf, entries, last) ==
    IF AppendInPlace(buf.Index)
    THEN [j \in 1..Len(entries) |-> [entries[j] EXCEPT !.Index.v[Len(buf.Index.v) + 1] = last]]
    ELSE entries

traverseOne(tagName, st) ==
    LET done(buf, t, u) ==
            [q |-> Tail(st.q) \o Alias(buf, u.queued, u.last),
             fields |-> t.fields \o Alias(buf, u.made, u.last),
             visited |-> u.visited]
        untagged(buf, fs, t) ==
            done(buf, t, walkUntagged(buf, fs, 1, [made |-> <<>>, queued |-> <<>>, visited |-> t.visited,
                                                   tagged |-> t.tagged, last |-> 0]))
        tagged(buf, fs) ==
            untagged(buf, fs, walkTagged(fs, tagName, 1, [fields |-> st.fields, visited |-> st.visited, tagged |-> {}]))
    IN  tagged(Head(st.q), StructFields(Head(st.q).Type))

initFields(typ, tagName) ==
    LET RECURSIVE traverse(_)
        traverse(st) ==
            LET next(nx) == IF Len(nx.q) = 0 THEN nx.fields ELSE traverse(nx)
            IN  next(traverseOne(tagName, st))
    IN  traverse([q |-> <<[Index |-> [v |-> <<>>, cap |-> 0], Path |-> <<>>, Type |-> StripPtr(typ)]>>,
                  fields |-> <<>>, visited |-> {}])

RECURSIVE DerefAll(_)
DerefAll(x) == IF x.t.k = "ptr" /\ x.v.to # <<>> THEN DerefAll(x.v.to[1]) ELSE x

(* The inner loop of WalkValues for one field: the value the callback     *)
(* receives, "skip" for a nil embedded pointer, or a panic of v.Field.    *)
RECURSIVE walkIndex(_, _, _, _)
walkIndex(x, index, i, embedded) ==
    LET down(d) == IF embedded /\ d.t.k = "ptr" THEN [st |-> "skip", val |-> NilV]
                   ELSE walkIndex(d, index, i + 1, embedded)
    IN  IF i > Len(index) THEN [st |-> "ok", val |-> x]
        ELSE IF x.t.k # "struct" \/ x.t \in {typTime, TMyTime} \/ index[i] > Len(x.v)
        THEN [st |-> "panic", val |-> NilV]
        ELSE down(IF embedded THEN DerefAll(x.v[index[i]]) ELSE x.v[index[i]])

(* WalkValues: the (FieldInfo, value) pairs in the order the callback is  *)
(* called with them.  An item with st = "panic" stands for a reflect      *)
(* fault at that point of the loop; the callers stop at the item at which *)
(* their callback returns false.                                          *)
WalkValues(typ, tagName, value) ==
    LET RECURSIVE walk(_, _, _)
        walk(x, fields, i) ==
            LET item(fi, r) == IF r.st = "skip" THEN walk(x, fields, i + 1)
                               ELSE <<[st |-> r.st, fi |-> fi, v |-> r.val]>> \o walk(x, fields, i + 1)
            IN  IF i > Len(fields) THEN <<>>
                ELSE item(fields[i],
                          walkIndex(x, fields[i].Index.v, 1, fields[i].TagValue = <<>> /\ Len(fields[i].Index.v) > 1))
    IN  IF IsNilPtr(value) THEN <<>>
        ELSE walk(DerefAll(value), initFields(typ, tagName), 1)

----------------------------------------------------------------------------
(* field_matcher.go *)

Uppers == <<"A", "B", "C", "D", "E", "F", "G", "H", "I", "J", "K", "L", "M",
            "N", "O", "P", "Q", "R", "S", "T", "U", "V", "W", "X", "Y", "Z">>
Lowers == <<"a", "b", "c", "d", "e", "f", "g", "h", "i", "j", "k", "l", "m",
            "n", "o", "p", "q", "r", "s", "t", "u", "v", "w", "x", "y", "z">>
IsUpper(c) == \E i \in 1..26 : Uppers[i] = c
ToLowerRune(c) == IF IsUpper(c) THEN Lowers[CHOOSE i \in 1..26 : Uppers[i] = c] ELSE c

(* The zero SimpleMatcherConfig, used when Conf.FieldMatcherCreator is nil. *)
DefaultMatcherConf == [Tag |-> <<>>, CaseInsensitive |-> FALSE, OmitUnderscore |-> FALSE, CamelSnakeCase |-> FALSE]

(* A folding in which an upper-case rune starts a word only after a      *)
(* lower-case rune.                                                       *)
fixCamelSnakeCaseNameAfterLower(name) ==
    LET isLower(c) == \E i \in 1..26 : Lowers[i] = c
        RECURSIVE loop(_, _, _)
        loop(i, state, b) ==
            LET ensured(c, next) ==
                    IF next = "d" THEN loop(i + 1, "d", b)
                    ELSE IF next = "s" THEN loop(i + 1, "s", b \o <<"_", ToLowerRune(c)>>)
                    ELSE loop(i + 1, "n", Append(b, c))
            IN  IF i > Len(name) THEN b
                ELSE ensured(name[i],
                             IF i = 1 \/ (IsUpper(name[i]) /\ isLower(name[i - 1])) THEN "s"
                             ELSE IF state = "d" THEN "s"
                             ELSE IF name[i] # "_" THEN "n"
                             ELSE IF i < Len(name) THEN "d"
                             ELSE "n")
    IN  loop(1, "s", <<>>)

(* States: "s" word start, "d" delimiter, "n" other. *)
fixCamelSnakeCaseName(name) ==
    LET RECURSIVE loop(_, _, _)
        loop(i, state, b) ==
            LET ensured(c, next) ==
                    IF next = "d" THEN loop(i + 1, "d", b)
                    ELSE IF next = "s" THEN loop(i + 1, "s", b \o <<"_", ToLowerRune(c)>>)
                    ELSE loop(i + 1, "n", Append(b, c))
            IN  IF i > Len(name) THEN b
                ELSE ensured(name[i],
                             IF i = 1 \/ IsUpper(name[i]) THEN "s"
                             ELSE IF state = "d" THEN "s"
                             ELSE IF name[i] # "_" THEN "n"
                             ELSE IF i < Len(name) THEN "d"
                             ELSE "n")
    IN  loop(1, "s", <<>>)

(* A folding in which the first option set is the only one applied. *)
fixNameExclusive(conf, name) ==
    LET notUnderscore(c) == c # "_"
    IN  IF conf.CaseInsensitive THEN [i \in 1..Len(name) |-> ToLowerRune(name[i])]
        ELSE IF conf.OmitUnderscore THEN SelectSeq(name, notUnderscore)
        ELSE IF conf.CamelSnakeCase THEN fixCamelSnakeCaseName(name)
        ELSE name

fixName(conf, name) ==
    LET notUnderscore(c) == c # "_"
        lower(n) == IF conf.CaseInsensitive THEN [i \in 1..Len(n) |-> ToLowerRune(n[i])] ELSE n
        omit(n) == IF conf.OmitUnderscore THEN SelectSeq(n, notUnderscore) ELSE n
    IN  IF ~conf.CaseInsensitive /\ ~conf.OmitUnderscore /\ conf.CamelSnakeCase THEN fixCamelSnakeCaseName(name)
        ELSE omit(lower(name))

(* An index in which a field replaces the one stored under its key. *)
initFieldMapLastWins(conf, typ) ==
    LET RECURSIVE loop(_, _, _)
        loop(fs, i, m) ==
            LET differs(e, name) == e.key # name
                store(f, name) ==
                    IF f.PkgPath THEN m
                    ELSE Append(SelectSeq(m, LAMBDA e : differs(e, name)),
                                [key |-> name, f |-> FieldInfo(f, [v |-> <<i>>, cap |-> 1], f.Name, <<>>)])
                named(f, tag) == store(f, fixName(conf, IF tag = <<>> THEN f.Name ELSE tag))
            IN  IF i > Len(fs) THEN m
                ELSE loop(fs, i + 1, named(fs[i], TagGet(fs[i], conf.Tag)))
    IN  loop(StructFields(typ), 1, <<>>)

(* initFieldMap: the index as the list of (key, field) pairs stored, in   *)
(* the order they were stored; a key already present is not stored again. *)
initFieldMap(conf, typ) ==
    LET RECURSIVE loop(_, _, _)
        loop(fs, i, m) ==
            LET store(f, name) ==
                    IF f.PkgPath \/ (\E j \in 1..Len(m) : m[j].key = name) THEN m
                    ELSE Append(m, [key |-> name, f |-> FieldInfo(f, [v |-> <<i>>, cap |-> 1], f.Name, <<>>)])
                named(f, tag) == store(f, fixName(conf, IF tag = <<>> THEN f.Name ELSE tag))
            IN  IF i > Len(fs) THEN m
                ELSE loop(fs, i + 1, named(fs[i], TagGet(fs[i], conf.Tag)))
    IN  loop(StructFields(typ), 1, <<>>)

MatchField(conf, typ, name) ==
    LET load(fs, key) ==
            IF \E j \in 1..Len(fs) : fs[j].key = key
            THEN [ok |-> TRUE, field |-> fs[CHOOSE j \in 1..Len(fs) : fs[j].key = key].f]
            ELSE [ok |-> FALSE, field |-> FieldInfo(Fld(<<>>, TInvalid), [v |-> <<>>, cap |-> 0], <<>>, <<>>)]
    IN  load(initFieldMap(conf, typ), fixName(conf, name))

----------------------------------------------------------------------------
(* reflect helpers *)

(* x may be stored by reflect.Value.Set, Append or SetMapIndex into a slot *)
(* of static type T: reflect.ValueOf(nil) is the zero Value, which these   *)
(* calls reject, and a value of another type is not assignable.            *)
Assignable(x, T) == ~IsNil(x) /\ (T = typEmptyInterface \/ x.t = T)

RECURSIVE PtrDepth(_)
PtrDepth(T) == IF T.k = "ptr" THEN 1 + PtrDepth(T.elem) ELSE 0

(* The order in which a range over the map visits its entries: Go leaves  *)
(* it unspecified, the run picks one of two opposite orders.              *)
MapRange(c, x) ==
    LET RECURSIVE SeqOfSet(_)
        SeqOfSet(S) == IF S = {} THEN <<>>
                       ELSE LET rest(e) == <<e>> \o SeqOfSet(S \ {e}) IN rest(CHOOSE e \in S : TRUE)
        order(s) == IF c.rev THEN [i \in 1..Len(s) |-> s[Len(s) + 1 - i]] ELSE s
    IN  order(SeqOfSet(x.v.m))

(* A SetMapIndex that stores an entry for the zero Value too. *)
SetMapIndexStoresNil(m, key, elem) == {e \in m : e.k # key} \cup {Ent(key, elem)}

(* reflect.Value.SetMapIndex(key, elem): the zero Value as elem deletes. *)
SetMapIndex(m, key, elem) ==
    IF IsNil(elem) THEN {e \in m : e.k # key}
    ELSE {e \in m : e.k # key} \cup {Ent(key, elem)}

(* getFieldValue followed by Set: the struct with the field at index set  *)
(* to nv, nil embedded pointers on the way allocated.                     *)
RECURSIVE setIn(_, _, _)
setIn(x, index, nv) ==
    IF x.t.k = "ptr"
    THEN PtrAs(x.t, IF x.v.to = <<>> THEN "new" ELSE x.v.id,
               setIn(IF x.v.to = <<>> THEN Zero(x.t.elem) ELSE x.v.to[1], index, nv))
    ELSE [x EXCEPT !.v[index[1]] = IF Len(index) = 1 THEN nv ELSE setIn(@, Tail(index), nv)]

getFieldValue(val, index) ==
    LET check(x) == IF IsNilPtr(x) THEN Panic(<<"value is nil">>)
                    ELSE IF x.t.k # "struct" THEN Panic(<<"value must be struct">>)
                    ELSE Ok(x)
    IN  IF Len(index) = 0 THEN Panic(<<"index must be given">>) ELSE check(DerefAll(val))

----------------------------------------------------------------------------
(* Conf.CustomConverters.  A ConvertFunc is a caller's function; the model *)
(* knows four of them by name:                                             *)
(*   "pass"  returns (nil, nil) for every request;                         *)
(*   "fail"  returns an error for every request;                           *)
(*   "onInt" answers requests for type int with 7 and passes on the rest;  *)
(*   "onStr" answers requests for type string with "c" and passes on the   *)
(*           rest.                                                         *)
CustomConverter(name, value, typ) ==
    CASE name = "fail" -> [res |-> NilV, err |-> <<"bad name">>]
      [] name = "onInt" /\ typ = TInt -> [res |-> IntV(7), err |-> <<>>]
      [] name = "onStr" /\ typ = TString -> [res |-> StrV(<<"c">>), err |-> <<>>]
      [] OTHER -> [res |-> NilV, err |-> <<>>]

converterErr(fnName, i, err) == errForFunction(fnName, <<"converter[">> \o FormatNat(i - 1) \o <<"]: ">> \o err)

(* The CustomConverters loop of ConvertType, from converter i on: how it  *)
(* ended (st) and the invocations made, each with the position of the    *)
(* converter, the arguments it received and what it returned.            *)
RECURSIVE runConverters(_, _, _, _, _)
(* The loop without its return on an error: the next converter is asked. *)
runConvertersPastError(cc, src, dstTyp, i, calls) ==
    LET returned(r, made) ==
            IF r.err = <<>> /\ ~IsNil(r.res) THEN [st |-> "hit", out |-> Ok(r.res), calls |-> made]
            ELSE runConverters(cc, src, dstTyp, i + 1, made)
        invoke(r) == returned(r, Append(calls, [i |-> i, src |-> src, typ |-> dstTyp, res |-> r.res, err |-> r.err]))
    IN  IF i > Len(cc) THEN [st |-> "none", out |-> Ok(NilV), calls |-> calls]
        ELSE invoke(CustomConverter(cc[i], src, dstTyp))

runConverters(cc, src, dstTyp, i, calls) ==
    LET returned(r, made) ==
            IF r.err # <<>> THEN [st |-> "err", out |-> Err(converterErr("ConvertType", i, r.err)), calls |-> made]
            ELSE IF ~IsNil(r.res) THEN [st |-> "hit", out |-> Ok(r.res), calls |-> made]
            ELSE runConverters(cc, src, dstTyp, i + 1, made)
        invoke(r) == returned(r, Append(calls, [i |-> i, src |-> src, typ |-> dstTyp, res |-> r.res, err |-> r.err]))
    IN  IF i > Len(cc) THEN [st |-> "none", out |-> Ok(NilV), calls |-> calls]
        ELSE invoke(CustomConverter(cc[i], src, dstTyp))

----------------------------------------------------------------------------
(* conv.go: the conversion engine.  c is the Conv: cc its CustomConverters, *)
(* mc the SimpleMatcherConfig of its FieldMatcherCreator, splitter its      *)
(* StringSplitter; c.rev is the map iteration order of the run.  The result *)
(* of a call is named by passing it to a local operator, as the code names  *)
(* it by an assignment.                                                     *)

(* getUnderlyingValue: a pointer to an interface slot ends the descent.  *)
RECURSIVE getUnderlyingValue(_)
getUnderlyingValue(x) ==
    IF IsNil(x) THEN NilV
    ELSE IF x.t.k # "ptr" THEN x
    ELSE IF x.v.to = <<>> THEN NilV
    ELSE IF x.t.elem.k = "interface" THEN x.v.to[1]
    ELSE getUnderlyingValue(x.v.to[1])

tryFlattenEmptyKeyMap(x) ==
    LET only(e) == IF e.k = StrV(<<>>) THEN e.v ELSE NilV
    IN  IF x.t # typStringMap \/ Cardinality(x.v.m) # 1 THEN NilV
        ELSE only(CHOOSE e \in x.v.m : TRUE)

(* A chain of depth pointers around x: the re-wrapping loop at the end of *)
(* ConvertType allocates them (id "new"), a caller builds its own ("src"). *)
RECURSIVE wrapPtr(_, _, _)
wrapPtr(x, depth, id) == IF depth = 0 THEN x ELSE wrapPtr(PtrV(id, x), depth - 1, id)

(* The first steps of ConvertType, up to the end of the CustomConverters *)
(* loop: which of them answered the call (at) and the converter          *)
(* invocations made.                                                     *)
convertTypeHead(c, src, dstTyp) ==
    LET looped(cr) == [at |-> cr.st, out |-> cr.out, calls |-> cr.calls]
    IN  IF dstTyp = typEmptyInterface THEN [at |-> "interface", out |-> Ok(src), calls |-> <<>>]
        ELSE IF IsNil(src) /\ dstTyp.k = "ptr" THEN [at |-> "nil", out |-> Ok(Zero(dstTyp)), calls |-> <<>>]
        ELSE looped(runConverters(c.cc, src, dstTyp, 1, <<>>))

RECURSIVE ConvertType(_, _, _)
RECURSIVE convertToNonPtr(_, _, _)
RECURSIVE StructToMap(_, _)
RECURSIVE convertToMapValue(_, _)
RECURSIVE Convert(_, _, _)

StringToSlice(c, v, simpleSliceType) ==
    LET RECURSIVE loop(_, _, _)
        loop(parts, i, dst) ==
            LET add(r) ==
                    IF r.st = "ok" THEN loop(parts, i + 1, Append(dst, r.val))
                    ELSE WrapErr("StringToSlice",
                            <<"cannot convert to ", TypeName(simpleSliceType), ", at index ">>
                                \o FormatNat(i - 1) \o <<": ">>, r)
            IN  IF i > Len(parts) THEN Ok(SliceV(simpleSliceType, "new", dst))
                ELSE add(parts[i])
    IN  IF simpleSliceType.k # "slice"
        THEN Err(errForFunction("StringToSlice", <<"the destination type must be slice, got ", TypeName(simpleSliceType)>>))
        ELSE IF ~IsSimpleType(simpleSliceType.elem)
        THEN Err(errForFunction("StringToSlice",
                <<"cannot convert from string to ", TypeName(simpleSliceType), ", the element's type must be a simple type">>))
        ELSE loop([i \in DOMAIN doSplitString(c, v) |->
                      SimpleToSimple(c, StrV(doSplitString(c, v)[i]), simpleSliceType.elem)], 1, <<>>)

SliceToSlice(c, src, dstSliceTyp) ==
    LET RECURSIVE loop(_, _, _)
        loop(es, i, dst) ==
            LET add(r) ==
                    IF r.st # "ok"
                    THEN WrapErr("SliceToSlice",
                            <<"cannot convert to ", TypeName(dstSliceTyp), ", at index ">>
                                \o FormatNat(i - 1) \o <<" : ">>, r)
                    ELSE IF ~Assignable(r.val, dstSliceTyp.elem) THEN Panic(<<"reflect.Append: value is not assignable">>)
                    ELSE loop(es, i + 1, Append(dst, r.val))
            IN  IF i > Len(es) THEN Ok(SliceV(dstSliceTyp, "new", dst))
                ELSE add(ConvertType(c, es[i], dstSliceTyp.elem))
    IN  IF IsNil(src) THEN Err(errSourceShouldNotBeNil("SliceToSlice"))
        ELSE IF src.t.k # "slice" THEN Err(errForFunction("SliceToSlice", <<"src must be a slice, got ", src.t.k>>))
        ELSE IF dstSliceTyp.k # "slice"
        THEN Err(errForFunction("SliceToSlice", <<"the destination type must be slice, got ", dstSliceTyp.k>>))
        ELSE IF src.v.nil THEN Ok(Zero(dstSliceTyp))
        ELSE loop(src.v.e, 1, <<>>)

MapToMap(c, m, typ) ==
    LET RECURSIVE loop(_, _, _)
        loop(entries, i, dst) ==
            LET set(srcKey, rk, rv) ==
                    IF rk.st # "ok"
                    THEN WrapErr("MapToMap",
                            <<"cannot covert key '">> \o FormatV(srcKey) \o <<"' to ", TypeName(typ.key), ": ">>, rk)
                    ELSE IF rv.st # "ok"
                    THEN WrapErr("MapToMap",
                            <<"cannot covert value of key '">> \o FormatV(srcKey) \o <<"' to ", TypeName(typ.elem), ": ">>, rv)
                    ELSE IF ~Assignable(rk.val, typ.key) \/ rk.val.t.k \in {"slice", "map"}
                    THEN Panic(<<"reflect.Value.SetMapIndex: key is not assignable">>)
                    ELSE IF ~IsNil(rv.val) /\ ~Assignable(rv.val, typ.elem)
                    THEN Panic(<<"reflect.Value.SetMapIndex: value is not assignable">>)
                    ELSE loop(entries, i + 1, SetMapIndex(dst, rk.val, rv.val))
            IN  IF i > Len(entries) THEN Ok(MapV(typ, "new", dst))
                ELSE set(entries[i].k, ConvertType(c, entries[i].k, typ.key), ConvertType(c, entries[i].v, typ.elem))
    IN  IF IsNil(m) \/ m.t.k # "map"
        THEN Err(errForFunction("MapToMap", <<"the given value type must be a map, got ", m.t.k>>))
        ELSE IF typ.k # "map" THEN Err(errForFunction("MapToMap", <<"the destination type must be map, got ", TypeName(typ)>>))
        ELSE IF m.v.nil THEN Ok(Zero(typ))
        ELSE loop(MapRange(c, m), 1, {})

(* MapToStruct leaving a field it cannot convert at its zero value. *)
MapToStructSkippingErrors(c, m, dstTyp) ==
    LET RECURSIVE loop(_, _, _, _)
        loop(entries, fields, i, dst) ==
            LET set(field, gf, vf) ==
                    IF gf.st # "ok" THEN WrapErr("MapToStruct", <<>>, gf)
                    ELSE IF vf.st # "ok"
                    THEN loop(entries, fields, i + 1, dst)
                    ELSE IF ~Assignable(vf.val, field.Type) THEN Panic(<<"reflect.Set: value is not assignable">>)
                    ELSE loop(entries, fields, i + 1, setIn(dst, field.Index.v, vf.val))
            IN  IF i > Len(entries) THEN Ok(dst)
                ELSE IF ~fields[i].ok THEN loop(entries, fields, i + 1, dst)
                ELSE set(fields[i].field, getFieldValue(dst, fields[i].field.Index.v),
                         ConvertType(c, entries[i].v, fields[i].field.Type))
        match(entries) == loop(entries, [i \in DOMAIN entries |-> MatchField(c.mc, dstTyp, entries[i].k.v)], 1, Zero(dstTyp))
    IN  IF IsNil(m) \/ m.v.nil THEN Err(errSourceShouldNotBeNil("MapToStruct"))
        ELSE IF dstTyp.k # "struct"
        THEN Err(errForFunction("MapToStruct", <<"the destination type must be struct, got ", TypeName(dstTyp)>>))
        ELSE match(MapRange(c, m))

MapToStruct(c, m, dstTyp) ==
    LET RECURSIVE loop(_, _, _, _)
        loop(entries, fields, i, dst) ==
            LET set(field, gf, vf) ==
                    IF gf.st # "ok" THEN WrapErr("MapToStruct", <<>>, gf)
                    ELSE IF vf.st # "ok"
                    THEN WrapErr("MapToStruct", <<"error on converting field '">> \o field.Name \o <<"': ">>, vf)
                    ELSE IF ~Assignable(vf.val, field.Type) THEN Panic(<<"reflect.Set: value is not assignable">>)
                    ELSE loop(entries, fields, i + 1, setIn(dst, field.Index.v, vf.val))
            IN  IF i > Len(entries) THEN Ok(dst)
                ELSE IF ~fields[i].ok THEN loop(entries, fields, i + 1, dst)
                ELSE set(fields[i].field, getFieldValue(dst, fields[i].field.Index.v),
                         ConvertType(c, entries[i].v, fields[i].field.Type))
        match(entries) == loop(entries, [i \in DOMAIN entries |-> MatchField(c.mc, dstTyp, entries[i].k.v)], 1, Zero(dstTyp))
    IN  IF IsNil(m) \/ m.v.nil THEN Err(errSourceShouldNotBeNil("MapToStruct"))
        ELSE IF dstTyp.k # "struct"
        THEN Err(errForFunction("MapToStruct", <<"the destination type must be struct, got ", TypeName(dstTyp)>>))
        ELSE match(MapRange(c, m))

StructToMap(c, v) ==
    LET RECURSIVE loop(_, _, _)
        loop(items, i, dst) ==
            LET put(ff) ==
                    IF ff.st # "ok"
                    THEN WrapErr("StructToMap", <<"error on converting field ">> \o items[i].fi.Name \o <<": ">>, ff)
                    ELSE loop(items, i + 1, SetMapIndex(dst, StrV(items[i].fi.Name), ff.val))
            IN  IF i > Len(items) THEN Ok(MapV(typStringMap, "new", dst))
                ELSE IF items[i].st = "panic" THEN Panic(<<"reflect: Field index out of range">>)
                ELSE put(convertToMapValue(c, items[i].v))
    IN  IF IsNil(v) THEN Err(errSourceShouldNotBeNil("StructToMap"))
        ELSE IF v.t.k # "struct"
        THEN Err(errForFunction("StructToMap", <<"the given value must be a struct, got ", TypeName(v.t)>>))
        ELSE loop(WalkValues(v.t, <<>>, v), 1, {})

RECURSIVE determineSliceTypeForMapValue(_)
determineSliceTypeForMapValue(srcSliceType) ==
    LET nested(inner) == IF inner.ok THEN [ok |-> TRUE, typ |-> SliceOf(inner.typ)] ELSE inner
    IN  IF IsSimpleType(srcSliceType.elem) THEN [ok |-> TRUE, typ |-> srcSliceType]
        ELSE IF srcSliceType.elem.k \in {"map", "struct"} THEN [ok |-> TRUE, typ |-> SliceOf(typStringMap)]
        ELSE IF srcSliceType.elem.k = "slice" THEN nested(determineSliceTypeForMapValue(srcSliceType.elem))
        ELSE [ok |-> FALSE, typ |-> TInvalid]

(* fv with its pointers and interfaces unwrapped is x; an interface slot *)
(* holds its dynamic value directly, so the Interface case is the        *)
(* conversion of that value.                                             *)
convertToMapValue(c, fv) ==
    LET RECURSIVE sliceLoop(_, _, _)
        sliceLoop(es, i, newSlice) ==
            LET add(newVal) ==
                    IF newVal.st = "err" THEN Err(<<"index ">> \o FormatNat(i - 1) \o <<": ">> \o newVal.err)
                    ELSE IF newVal.st = "panic" THEN newVal
                    ELSE IF IsNil(newVal.val) THEN Panic(<<"reflect: call of reflect.Value.Type on zero Value">>)
                    ELSE IF i > 1 /\ newVal.val.t # newSlice[1].t THEN Panic(<<"reflect.Append: value is not assignable">>)
                    ELSE sliceLoop(es, i + 1, Append(newSlice, newVal.val))
            IN  IF i > Len(es) THEN Ok(SliceV(SliceOf(newSlice[1].t), "new", newSlice))
                ELSE add(convertToMapValue(c, es[i]))
        RECURSIVE mapLoop(_, _, _)
        mapLoop(entries, i, newMap) ==
            LET set(oldKey, rk, newVal) ==
                    IF rk.st = "err" THEN Err(<<"key ">> \o FormatV(oldKey) \o <<": ">> \o rk.err)
                    ELSE IF rk.st = "panic" THEN rk
                    ELSE IF newVal.st = "err"
                    THEN Err(<<"value of key ">> \o rk.val.v.to[1].v \o <<": ">> \o newVal.err)
                    ELSE IF newVal.st = "panic" THEN newVal
                    ELSE mapLoop(entries, i + 1, SetMapIndex(newMap, rk.val.v.to[1], newVal.val))
            IN  IF i > Len(entries) THEN Ok(MapV(typStringMap, "new", newMap))
                ELSE set(entries[i].k, Convert(c, entries[i].k, PtrV("new", StrV(<<>>))),
                         convertToMapValue(c, entries[i].v))
        empty(x, st) ==
            IF ~st.ok THEN Err(<<"cannot convert ", TypeName(x.t)>>)
            ELSE IF x.v.nil THEN Ok(Zero(st.typ))
            ELSE Ok(SliceV(st.typ, "new", <<>>))
        conv(x) ==
            IF IsNil(x) \/ IsNilPtr(x) THEN Ok(NilV)
            ELSE IF x.t.k = "struct" THEN StructToMap(c, x)
            ELSE IF x.t.k = "slice"
            THEN IF x.v.nil \/ Len(x.v.e) = 0 THEN empty(x, determineSliceTypeForMapValue(x.t))
                 ELSE sliceLoop(x.v.e, 1, <<>>)
            ELSE IF x.t.k = "map"
            THEN IF x.v.nil THEN Ok(Zero(typStringMap))
                 ELSE mapLoop(MapRange(c, x), 1, {})
            ELSE IF IsPrimitiveKind(x.t.k) THEN simpleToPrimitive(c, x, x.t.k)
            ELSE IF ~IsSimpleType(x.t) THEN Err(<<"must be a simple type, got ", x.t.k>>)
            ELSE Ok(x)
    IN  conv(IF IsNil(fv) THEN NilV ELSE DerefAll(fv))

StructToStruct(c, src, dstTyp) ==
    LET RECURSIVE loop(_, _, _, _)
        loop(items, fields, i, vDst) ==
            LET set(field, gf, dstValue) ==
                    IF gf.st # "ok" THEN WrapErr("StructToStruct", <<>>, gf)
                    ELSE IF dstValue.st # "ok"
                    THEN WrapErr("StructToStruct", <<"error on converting field ">> \o field.Name \o <<": ">>, dstValue)
                    ELSE IF ~Assignable(dstValue.val, field.Type) THEN Panic(<<"reflect.Set: value is not assignable">>)
                    ELSE loop(items, fields, i + 1, setIn(vDst, field.Index.v, dstValue.val))
            IN  IF i > Len(items) THEN Ok(vDst)
                ELSE IF items[i].st = "panic" THEN Panic(<<"reflect: Field index out of range">>)
                ELSE IF ~fields[i].ok THEN loop(items, fields, i + 1, vDst)
                ELSE set(fields[i].field, getFieldValue(vDst, fields[i].field.Index.v),
                         ConvertType(c, items[i].v, fields[i].field.Type))
        match(items) == loop(items, [i \in DOMAIN items |-> MatchField(c.mc, dstTyp, items[i].fi.Name)], 1, Zero(dstTyp))
    IN  IF IsNil(src) THEN Err(errSourceShouldNotBeNil("StructToStruct"))
        ELSE IF dstTyp.k # "struct"
        THEN Err(errForFunction("StructToStruct", <<"the destination type must be struct, got ", dstTyp.k>>))
        ELSE IF src.t.k # "struct"
        THEN Err(errForFunction("StructToStruct", <<"the given value must be a struct, got ", TypeName(src.t)>>))
        ELSE match(WalkValues(src.t, <<>>, src))

convertToNonPtr(c, src0, dstTyp) ==
    LET cannotConvert(srcTyp) == Err(<<"cannot convert ", TypeName(srcTyp), " to ", TypeName(dstTyp)>>)
        conv(src, underlyingValue) ==
            IF IsNil(src)
            THEN IF dstTyp.k \in {"slice", "map"} THEN Ok(Zero(dstTyp))
                 ELSE Err(<<"cannot convert nil to ", TypeName(dstTyp)>>)
            ELSE IF IsSimpleType(src.t) /\ IsSimpleType(dstTyp) THEN SimpleToSimple(c, src, dstTyp)
            ELSE IF src.t.k = "map"
            THEN IF ~IsNil(underlyingValue) THEN ConvertType(c, underlyingValue, dstTyp)
                 ELSE IF dstTyp.k = "map" THEN MapToMap(c, src, dstTyp)
                 ELSE IF dstTyp.k = "struct"
                 THEN IF src.t # typStringMap
                      THEN Err(<<"when converting a map to a struct, the map must be map[string]interface{}, got ",
                                 TypeName(src.t)>>)
                      ELSE MapToStruct(c, src, dstTyp)
                 ELSE cannotConvert(src.t)
            ELSE IF src.t.k = "struct"
            THEN IF dstTyp.k = "map"
                 THEN IF dstTyp # typStringMap
                      THEN Err(<<"when converting a struct to a map, the destination type must be map[string]interface{}, got ",
                                 TypeName(dstTyp)>>)
                      ELSE StructToMap(c, src)
                 ELSE IF dstTyp.k = "struct" THEN StructToStruct(c, src, dstTyp)
                 ELSE cannotConvert(src.t)
            ELSE IF dstTyp.k = "slice" /\ src.t.k = "string"
            THEN IF src.t # TString THEN Panic(<<"interface conversion: interface {} is ", TypeName(src.t), ", not string">>)
                 ELSE StringToSlice(c, src.v, dstTyp)
            ELSE IF dstTyp.k = "slice" /\ src.t.k = "slice" THEN SliceToSlice(c, src, dstTyp)
            ELSE cannotConvert(src.t)
    IN  conv(getUnderlyingValue(src0), tryFlattenEmptyKeyMap(getUnderlyingValue(src0)))

ConvertType(c, src, dstTyp) ==
    LET wrap(head, dst) ==
            IF head.at # "none" THEN head.out
            ELSE IF dst.st # "ok" THEN WrapErr("ConvertType", <<>>, dst)
            ELSE IF PtrDepth(dstTyp) > 0 /\ IsNil(dst.val)
            THEN Panic(<<"reflect: call of reflect.Value.Type on zero Value">>)
            ELSE Ok(wrapPtr(dst.val, PtrDepth(dstTyp), "new"))
    IN  wrap(convertTypeHead(c, src, dstTyp), convertToNonPtr(c, src, StripPtr(dstTyp)))

----------------------------------------------------------------------------
(* Convert.  dstPtr is the pointer value handed in; the outcome's val is  *)
(* that pointer with the memory behind it as the call left it.  dstValue  *)
(* after k calls of Elem is described by k: its static type is            *)
(* StaticAt(dstPtr.t, k).                                                 *)

RECURSIVE StaticAt(_, _)
StaticAt(T, k) == IF k = 0 THEN T ELSE StaticAt(T.elem, k - 1)

(* Elem() was possible k times: no nil pointer among the first k levels. *)
RECURSIVE ValidAt(_, _)
ValidAt(p, k) == IF k = 0 THEN TRUE ELSE p.v.to # <<>> /\ ValidAt(p.v.to[1], k - 1)

RECURSIVE SetAt(_, _, _)
SetAt(p, k, x) == IF k = 0 THEN x ELSE [p EXCEPT !.v.to = <<SetAt(p.v.to[1], k - 1, x)>>]

(* The CustomConverters loop of Convert from converter i on, dstValue    *)
(* being k levels below dstPtr; types lists the types handed out so far. *)
RECURSIVE convertConverters(_, _, _, _, _, _)
convertConverters(cc, src, dstPtr, k, i, types) ==
    LET invoke(k1, typ, r) ==
            IF ~ValidAt(dstPtr, k1)
            THEN [st |-> "panic", k |-> k1, out |-> Panic(<<"reflect: call of reflect.Value.Type on zero Value">>),
                  types |-> types]
            ELSE IF r.err # <<>>
            THEN [st |-> "err", k |-> k1, out |-> Err(converterErr("Convert", i, r.err)), types |-> Append(types, typ)]
            ELSE IF ~IsNil(r.res)
            THEN [st |-> "hit", k |-> k1,
                  out |-> IF Assignable(r.res, typ) THEN Ok(SetAt(dstPtr, k1, r.res))
                          ELSE Panic(<<"reflect.Set: value is not assignable">>),
                  types |-> Append(types, typ)]
            ELSE convertConverters(cc, src, dstPtr, k1, i + 1, Append(types, typ))
        deref(k1) == invoke(k1, StaticAt(dstPtr.t, k1), CustomConverter(cc[i], src, StaticAt(dstPtr.t, k1)))
    IN  IF i > Len(cc) THEN [st |-> "none", k |-> k, out |-> Ok(NilV), types |-> types]
        ELSE deref(IF StaticAt(dstPtr.t, k).k = "ptr" THEN k + 1 ELSE k)

(* The loop that strips the pointer layers of dstValue: the level of the *)
(* non-pointer target, or -1 when a pointer on the way is nil.           *)
RECURSIVE stripDst(_, _)
stripDst(dstPtr, k) ==
    IF StaticAt(dstPtr.t, k).k # "ptr" THEN k
    ELSE IF ~ValidAt(dstPtr, k + 1) THEN -1
    ELSE stripDst(dstPtr, k + 1)

(* A Convert without the test for a nil source. *)
ConvertWithoutNilTest(c, src, dstPtr) ==
    LET set(cr, k, value) ==
            IF cr.st # "none" THEN cr.out
            ELSE IF k < 0 THEN Panic(errForFunction("Convert", <<"the underlying pointer must be initialized">>))
            ELSE IF value.st # "ok" THEN WrapErr("Convert", <<>>, value)
            ELSE IF ~Assignable(value.val, StaticAt(dstPtr.t, k)) THEN Panic(<<"reflect.Set: value is not assignable">>)
            ELSE Ok(SetAt(dstPtr, k, value.val))
        level == stripDst(dstPtr, convertConverters(c.cc, src, dstPtr, 0, 1, <<>>).k)
    IN  IF IsNil(dstPtr) \/ dstPtr.t.k # "ptr"
        THEN Panic(errForFunction("Convert", <<"the destination value must be a pointer">>))
        ELSE IF IsNilPtr(dstPtr) THEN Panic(errForFunction("Convert", <<"the pointer must be initialized">>))
        ELSE set(convertConverters(c.cc, src, dstPtr, 0, 1, <<>>), level,
                 convertToNonPtr(c, src, StaticAt(dstPtr.t, level)))

(* A Convert that returns for a nil source before it looks at dstPtr. *)
ConvertNilSourceFirst(c, src, dstPtr) ==
    LET set(cr, k, value) ==
            IF cr.st # "none" THEN cr.out
            ELSE IF k < 0 THEN Panic(errForFunction("Convert", <<"the underlying pointer must be initialized">>))
            ELSE IF value.st # "ok" THEN WrapErr("Convert", <<>>, value)
            ELSE IF ~Assignable(value.val, StaticAt(dstPtr.t, k)) THEN Panic(<<"reflect.Set: value is not assignable">>)
            ELSE Ok(SetAt(dstPtr, k, value.val))
        level == stripDst(dstPtr, convertConverters(c.cc, src, dstPtr, 0, 1, <<>>).k)
    IN  IF IsNil(src) THEN Ok(dstPtr)
        ELSE IF IsNil(dstPtr) \/ dstPtr.t.k # "ptr"
        THEN Panic(errForFunction("Convert", <<"the destination value must be a pointer">>))
        ELSE IF IsNilPtr(dstPtr) THEN Panic(errForFunction("Convert", <<"the pointer must be initialized">>))
        ELSE set(convertConverters(c.cc, src, dstPtr, 0, 1, <<>>), level,
                 convertToNonPtr(c, src, StaticAt(dstPtr.t, level)))

Convert(c, src, dstPtr) ==
    LET set(cr, k, value) ==
            IF cr.st # "none" THEN cr.out
            ELSE IF k < 0 THEN Panic(errForFunction("Convert", <<"the underlying pointer must be initialized">>))
            ELSE IF value.st # "ok" THEN WrapErr("Convert", <<>>, value)
            ELSE IF ~Assignable(value.val, StaticAt(dstPtr.t, k)) THEN Panic(<<"reflect.Set: value is not assignable">>)
            ELSE Ok(SetAt(dstPtr, k, value.val))
        level == stripDst(dstPtr, convertConverters(c.cc, src, dstPtr, 0, 1, <<>>).k)
    IN  IF IsNil(dstPtr) \/ dstPtr.t.k # "ptr"
        THEN Panic(errForFunction("Convert", <<"the destination value must be a pointer">>))
        ELSE IF IsNilPtr(dstPtr) THEN Panic(errForFunction("Convert", <<"the pointer must be initialized">>))
        ELSE IF IsNil(src) THEN Ok(dstPtr)
        ELSE set(convertConverters(c.cc, src, dstPtr, 0, 1, <<>>), level,
                 convertToNonPtr(c, src, StaticAt(dstPtr.t, level)))

----------------------------------------------------------------------------
(* The calls the model makes.  A run constructs one Conv and then calls   *)
(* ConvertType and Convert on it with arguments drawn from the sets below. *)

(* The deepest pointer type asked for and the deepest pointer chain handed *)
(* in (TestConv_ConvertType_convertPointers goes to depth 3).              *)
MaxDepth == 3

Confs ==
    {[cc |-> cc, mc |-> DefaultMatcherConf, splitter |-> sp, rev |-> rev] :
        cc \in {<<>>, <<"pass", "onInt">>, <<"fail", "onInt">>, <<"pass", "fail", "onStr">>, <<"onStr", "onInt", "fail">>},
        sp \in {"nil"}, rev \in BOOLEAN}
    \cup {[cc |-> <<>>, mc |-> DefaultMatcherConf, splitter |-> "comma", rev |-> FALSE]}

SimpleTypes == {TInt, PrimType("int8"), TString, TBool, PrimType("float64"), typTime, TFromString, TMyTime}

SimpleValues ==
    {IntV(5), IntV(-3), Mk(PrimType("int8"), 5), StrV(<<"5">>), StrV(<<"x">>), StrV(<<"5", "Z">>), StrV(<<"1", ",", "2">>),
     Mk(TBool, TRUE), Mk(PrimType("float64"), 3), Mk(PrimType("float64"), 4), TimeV(5, 0, "UTC"), TimeV(7, 3, "Local"),
     Mk(TFromString, <<"n">>), Mk(TFromString, <<"5">>), Mk(TMyTime, [sec |-> 5, nsec |-> 0, loc |-> "UTC"])}

(* The source arguments: nil, the simple values, pointers (nil, chains, to *)
(* a struct, to an interface), slices, maps and structs.                   *)
Sources ==
    LET stringMap(entries) == MapV(typStringMap, "src", entries)
        ints(es) == SliceV(SliceOf(TInt), "src", es)
        any(es) == SliceV(SliceOf(typEmptyInterface), "src", es)
        P1(a, b) == Mk(TStruct("P1"), <<IntV(a), StrV(b)>>)
        Q(p, i) == Mk(TStruct("Q"), <<p, i>>)
        E(n) == Mk(TStruct("E"), <<IntV(n)>>)
    IN  {NilV} \cup SimpleValues
        \cup {Zero(PtrTo(TInt)), Zero(PtrTo(TStruct("P1")))}
        \cup {wrapPtr(IntV(5), d, "src") : d \in 1..MaxDepth}
        \cup {PtrV("src", P1(1, <<"x">>)), PtrV("src", Zero(PtrTo(TInt))),
              PtrAs(PtrTo(typEmptyInterface), "src", IntV(5)), PtrAs(PtrTo(typEmptyInterface), "src", NilV)}
        \cup {Zero(SliceOf(TInt)), ints(<<>>), ints(<<IntV(1), IntV(2)>>),
              SliceV(SliceOf(TString), "src", <<StrV(<<"5">>), StrV(<<"x">>)>>),
              any(<<NilV>>), any(<<IntV(1), StrV(<<"2">>)>>),
              SliceV(SliceOf(PtrTo(TInt)), "src", <<Zero(PtrTo(TInt))>>)}
        \cup {Zero(typStringMap), stringMap({}),
              stringMap({Ent(StrV(<<>>), IntV(5))}), stringMap({Ent(StrV(<<>>), StrV(<<"x">>))}),
              stringMap({Ent(StrV(<<>>), NilV)}), stringMap({Ent(StrV(<<>>), PtrV("src", IntV(5)))}),
              stringMap({Ent(StrV(<<>>), stringMap({Ent(StrV(<<"A">>), IntV(1))}))}),
              stringMap({Ent(StrV(<<"A">>), StrV(<<"1", "2">>)), Ent(StrV(<<"B">>), IntV(3))}),
              stringMap({Ent(StrV(<<"A">>), StrV(<<"x">>)), Ent(StrV(<<"B">>), TimeV(5, 0, "UTC"))}),
              stringMap({Ent(StrV(<<"A">>), NilV)}),
              stringMap({Ent(StrV(<<"P">>), IntV(3)), Ent(StrV(<<"I">>), NilV)}),
              stringMap({Ent(StrV(<<"P">>), IntV(3)), Ent(StrV(<<"I">>), IntV(4))}),
              stringMap({Ent(StrV(<<"W">>), StrV(<<"5", "Z">>)), Ent(StrV(<<"N">>), IntV(3))}),
              stringMap({Ent(StrV(<<"V", "1">>), IntV(4)), Ent(StrV(<<"V", "2">>), StrV(<<"x">>))}),
              stringMap({Ent(StrV(<<"S">>), ints(<<IntV(1)>>))}),
              MapV(MapOf(TString, TInt), "src", {Ent(StrV(<<"a">>), IntV(1)), Ent(StrV(<<"5">>), IntV(2))}),
              MapV(MapOf(TInt, TString), "src", {Ent(IntV(1), StrV(<<"x">>))})}
        \cup {P1(1, <<"x">>), Zero(TStruct("P1")),
              Mk(TStruct("P2"), <<IntV(1), IntV(2)>>), Mk(TStruct("P2"), <<IntV(1), IntV(0)>>),
              Mk(TStruct("PT"), <<TimeV(5, 0, "UTC"), Mk(TFromString, <<"n">>)>>), Zero(TStruct("PT")),
              Q(Zero(PtrTo(TInt)), IntV(1)), Q(PtrV("src", IntV(3)), NilV), Q(PtrV("src", IntV(3)), IntV(1)),
              Q(PtrV("src", IntV(3)), ints(<<IntV(1)>>)),
              Zero(TStruct("PN")),
              Mk(TStruct("PN"), <<PtrV("src", E(4)), PtrV("src", PtrV("src", IntV(3)))>>),
              Mk(TStruct("PN"), <<PtrV("src", E(4)), PtrV("src", Zero(PtrTo(TInt)))>>),
              E(4), Mk(TStruct("T"), <<E(4), StrV(<<"x">>)>>), Zero(TStruct("T")),
              Mk(TStruct("R"), <<ints(<<IntV(1)>>),
                                 MapV(MapOf(TString, TInt), "src", {Ent(StrV(<<"a">>), IntV(1))}),
                                 P1(1, <<"x">>)>>),
              Zero(TStruct("R"))}

DstTypes ==
    {PtrN(d, T) : d \in 0..MaxDepth, T \in SimpleTypes}
    \cup {typEmptyInterface, PtrTo(typEmptyInterface), SliceOf(TInt), SliceOf(TString), SliceOf(typEmptyInterface),
          PtrTo(SliceOf(TInt)), typStringMap, PtrTo(typStringMap), MapOf(TString, TInt), MapOf(TInt, TString),
          PtrTo(TStruct("P1")), PtrTo(TStruct("Q")), TChan}
    \cup {TStruct(n) : n \in {"P1", "P2", "PT", "Q", "E", "T", "R"}}

(* The dstPtr arguments of Convert: initialized pointers to a zero value   *)
(* of several types, pointer chains with and without a nil link, and the   *)
(* arguments Convert rejects.                                              *)
DstPtrs ==
    {PtrV("src", Zero(T)) : T \in SimpleTypes \cup {SliceOf(TInt), typStringMap, TStruct("P1"), TStruct("Q"), TChan}}
    \cup {wrapPtr(IntV(0), d, "src") : d \in 1..MaxDepth}
    \cup {wrapPtr(Zero(PtrTo(TInt)), d, "src") : d \in 1..MaxDepth - 1}
    \cup {PtrAs(PtrTo(typEmptyInterface), "src", NilV), Zero(PtrTo(TInt)), IntV(0), NilV}

----------------------------------------------------------------------------
(* The state machine.                                                      *)
(*   conf   the Conf of the Conv under test                                *)
(*   op     the call made last: "ConvertType", "Back" (ConvertType applied *)
(*          to the result of the call before, asking for the type of that  *)
(*          call's source) or "Convert"; "new" before the first call       *)
(*   src    its source argument                                            *)
(*   dst    its destination: the type for ConvertType, dstPtr for Convert  *)
(*   out    its outcome; for Convert out.val is dstPtr with the memory     *)
(*          behind it as the call left it                                  *)
(*   calls  the custom converter invocations ConvertType itself made       *)
(*   first  for "Back", the arguments and the outcome of the call before   *)
(* A Conv keeps nothing from one call to the next, so a run makes one call *)
(* on a new Conv and, for the round trips, the call back.                  *)

VARIABLES conf, op, src, dst, out, calls, first

(* The lazily built indexes, shared by the goroutines that use one Conv:  *)
(* the fs of a simpleMatcher and the fields of a FieldWalker.              *)
(*   goroutines  for each goroutine the call it is in: the object called   *)
(*               (obj), its position in the call (pc) and the index it     *)
(*               went on to read (got)                                     *)
(*   mu          for each object the goroutine holding its mutex, 0 when   *)
(*               it is free                                                *)
(*   published   for each object the index stored in it (fs, fields): the  *)
(*               goroutine that built it (by, 0 while it is nil) and the   *)
(*               entries                                                   *)
(*   built       for each object the goroutines whose build body ran to    *)
(*               completion                                                *)
VARIABLES goroutines, mu, published, built

(* The matchers of a Conv over a sequence of conversions.                  *)
(*   creator   Conf.FieldMatcherCreator: "nil", or "set" for a             *)
(*             *SimpleMatcherCreator the caller configured                 *)
(*   matchers  for each struct type the simpleMatcher the configured       *)
(*             creator holds for it: "none", "stored" (fs is nil) or       *)
(*             "built" (fs is set)                                         *)
(*   log       for each conversion made so far the destination type and    *)
(*             whether initFieldMap ran in it                              *)
VARIABLES creator, matchers, log

(* Concurrent GetMatcher calls with one type on one SimpleMatcherCreator   *)
(* and concurrent NewFieldWalker calls with one type and tag name.  The    *)
(* candidate a call creates is named by the goroutine making the call.     *)
(*   callers  for each goroutine the function it called (fn), the point it *)
(*            has reached (pc), whether it made the map of the cache, and  *)
(*            what LoadOrStore answered (actual, loaded)                   *)
(*   rw       fieldWalkerCache.mu: the goroutines holding the read lock    *)
(*            and the one holding the write lock (0: none)                 *)
(*   data     fieldWalkerCache.data as the goroutine that made it (m, 0    *)
(*            while nil) and its entry for the key (walker, 0: none), and  *)
(*            the entry of the creator's sync.Map for the type (matcher)   *)
VARIABLES callers, rw, data

engineVars == <<goarch, conf, op, src, dst, out, calls, first>>
lazyVars == <<goroutines, mu, published, built>>
cacheVars == <<creator, matchers, log>>
storeVars == <<callers, rw, data>>
vars == <<engineVars, lazyVars, cacheVars, storeVars>>

(* The number of goroutines making first calls. *)
NumGoroutines == 3
Goroutines == 1..NumGoroutines
Objects == {"simpleMatcher", "FieldWalker"}

(* A goroutine that has called neither GetMatcher nor NewFieldWalker. *)
NotCalling == [fn |-> "none", pc |-> "idle", made |-> FALSE, actual |-> 0, loaded |-> FALSE]

(* The struct types conversions are made to in a sequence. *)
IndexedTypes == {TStruct("P1"), TStruct("P2"), TStruct("E")}

Init ==
    /\ creator = "nil"
    /\ matchers = [T \in IndexedTypes |-> "none"]
    /\ log = <<>>
    /\ callers = [t \in Goroutines |-> NotCalling]
    /\ rw = [readers |-> {}, writer |-> 0]
    /\ data = [m |-> 0, walker |-> 0, matcher |-> 0]
    /\ goarch \in GoArchs
    /\ conf \in Confs
    /\ op = "new"
    /\ src = NilV
    /\ dst = TInvalid
    /\ out = Ok(NilV)
    /\ calls = <<>>
    /\ first = [src |-> NilV, dst |-> TInvalid, out |-> Ok(NilV)]
    /\ goroutines = [t \in Goroutines |-> [pc |-> "idle", obj |-> "none", got |-> [by |-> 0, entries |-> <<>>]]]
    /\ mu = [o \in Objects |-> 0]
    /\ published = [o \in Objects |-> [by |-> 0, entries |-> <<>>]]
    /\ built = [o \in Objects |-> {}]

CallConvertType ==
    /\ op = "new"
    /\ \E s \in Sources, T \in DstTypes :
        /\ op' = "ConvertType"
        /\ src' = s
        /\ dst' = T
        /\ out' = ConvertType(conf, s, T)
        /\ calls' = convertTypeHead(conf, s, T).calls
        /\ UNCHANGED <<goarch, conf, first, lazyVars, cacheVars, storeVars>>

(* The caller feeds the result of a successful ConvertType back in and    *)
(* asks for the type its source had.                                      *)
CallBack ==
    /\ op = "ConvertType"
    /\ out.st = "ok"
    /\ ~IsNil(src)
    /\ op' = "Back"
    /\ src' = out.val
    /\ dst' = src.t
    /\ out' = ConvertType(conf, out.val, src.t)
    /\ calls' = convertTypeHead(conf, out.val, src.t).calls
    /\ first' = [src |-> src, dst |-> dst, out |-> out]
    /\ UNCHANGED <<goarch, conf, lazyVars, cacheVars, storeVars>>

CallConvert ==
    /\ op = "new"
    /\ \E s \in Sources, p \in DstPtrs :
        /\ op' = "Convert"
        /\ src' = s
        /\ dst' = p
        /\ out' = Convert(conf, s, p)
        /\ calls' = <<>>
        /\ UNCHANGED <<goarch, conf, first, lazyVars, cacheVars, storeVars>>

(* After a successful Convert the caller calls Convert with a nil source *)
(* and the same pointer, which now leads to what the first call stored.  *)
CallConvertNil ==
    /\ op = "Convert"
    /\ out.st = "ok"
    /\ op' = "ConvertNil"
    /\ src' = NilV
    /\ dst' = out.val
    /\ out' = Convert(conf, NilV, out.val)
    /\ calls' = <<>>
    /\ first' = [src |-> src, dst |-> dst, out |-> out]
    /\ UNCHANGED <<goarch, conf, lazyVars, cacheVars, storeVars>>

Next == CallConvertType \/ CallBack \/ CallConvert \/ CallConvertNil

Spec == Init /\ [][Next]_vars

----------------------------------------------------------------------------
(* First calls made concurrently: simpleMatcher.MatchField and            *)
(* FieldWalker.WalkFields (WalkValues begins the same way).  A goroutine  *)
(* takes one step of its call at a time.                                  *)

(* What the build body computes: initFieldMap for the matcher of type T, *)
(* initFields for the walker of type T.                                  *)
BuildIndex(o) ==
    IF o = "simpleMatcher" THEN initFieldMap(conf.mc, TStruct("T")) ELSE initFields(TStruct("T"), <<>>)

(* goroutine t moves to pc at; its got is unchanged unless it reads. *)
Goto(t, at) == goroutines' = [goroutines EXCEPT ![t].pc = at]

(* The goroutine calls MatchField or WalkFields. *)
CallFirst(t) ==
    \E o \in Objects :
        /\ goroutines[t].pc = "idle"
        /\ goroutines' = [goroutines EXCEPT ![t].pc = "read", ![t].obj = o]
        /\ UNCHANGED <<mu, published, built, engineVars, cacheVars, storeVars>>

(* "if ix.fs == nil", "if walker.fields == nil": the read is outside the *)
(* lock and races with the store that publishes the index, so it returns *)
(* nil or the index stored so far.  A goroutine that finds the index set *)
(* goes on to read it without having taken the lock (pc "raced").        *)
ReadUnlocked(t) ==
    /\ goroutines[t].pc = "read"
    /\ \E seen \in {[by |-> 0, entries |-> <<>>], published[goroutines[t].obj]} :
           Goto(t, IF seen.by = 0 THEN "lock" ELSE "raced")
    /\ UNCHANGED <<mu, published, built, engineVars, cacheVars, storeVars>>

Lock(t) ==
    /\ goroutines[t].pc = "lock"
    /\ mu[goroutines[t].obj] = 0
    /\ mu' = [mu EXCEPT ![goroutines[t].obj] = t]
    /\ Goto(t, "check")
    /\ UNCHANGED <<published, built, engineVars, cacheVars, storeVars>>

(* The check without its test: whoever takes the lock builds. *)
CheckLockedAlwaysBuilds(t) ==
    /\ goroutines[t].pc = "check"
    /\ Goto(t, "build")
    /\ UNCHANGED <<mu, published, built, engineVars, cacheVars, storeVars>>

(* The second check, made under the lock. *)
CheckLocked(t) ==
    /\ goroutines[t].pc = "check"
    /\ Goto(t, IF published[goroutines[t].obj].by = 0 THEN "build" ELSE "unlock")
    /\ UNCHANGED <<mu, published, built, engineVars, cacheVars, storeVars>>

(* The build body, ending with the store "ix.fs = m", "walker.fields =   *)
(* fields".                                                              *)
Build(t) ==
    /\ goroutines[t].pc = "build"
    /\ published' = [published EXCEPT ![goroutines[t].obj] = [by |-> t, entries |-> BuildIndex(goroutines[t].obj)]]
    /\ built' = [built EXCEPT ![goroutines[t].obj] = @ \cup {t}]
    /\ Goto(t, "unlock")
    /\ UNCHANGED <<mu, engineVars, cacheVars, storeVars>>

Unlock(t) ==
    /\ goroutines[t].pc = "unlock"
    /\ mu' = [mu EXCEPT ![goroutines[t].obj] = 0]
    /\ Goto(t, "use")
    /\ UNCHANGED <<published, built, engineVars, cacheVars, storeVars>>

(* The rest of the call in a goroutine that has held the lock reads the   *)
(* index: ix.fs.Load(name), the range over walker.fields.                 *)
Use(t) ==
    /\ goroutines[t].pc = "use"
    /\ goroutines' = [goroutines EXCEPT ![t].pc = "done", ![t].got = published[goroutines[t].obj]]
    /\ UNCHANGED <<mu, published, built, engineVars, cacheVars, storeVars>>

(* What a goroutine can read of the index ix of object o when nothing    *)
(* orders its reads after the builder's writes.  The matcher's index is  *)
(* reached through the pointer ix.fs: the entries stored in the map      *)
(* before the pointer was set need not all be visible to it.  The        *)
(* walker's index is a slice header stored word by word: the reader has  *)
(* the whole list or the new pointer with the length of the nil slice.   *)
Views(o, ix) ==
    {[by |-> ix.by, entries |-> SubSeq(ix.entries, 1, n)] :
        n \in IF o = "simpleMatcher" THEN 0..Len(ix.entries) ELSE {0, Len(ix.entries)}}

(* The rest of the call in a goroutine that found the index set outside   *)
(* the lock: ix.fs.Load(name), the range over walker.fields.              *)
UseUnsynchronized(t) ==
    /\ goroutines[t].pc = "raced"
    /\ \E view \in Views(goroutines[t].obj, published[goroutines[t].obj]) :
           goroutines' = [goroutines EXCEPT ![t].pc = "done", ![t].got = view]
    /\ UNCHANGED <<mu, published, built, engineVars, cacheVars, storeVars>>

FirstCalls ==
    \E t \in Goroutines :
        \/ CallFirst(t) \/ ReadUnlocked(t) \/ Lock(t) \/ CheckLocked(t) \/ Build(t) \/ Unlock(t) \/ Use(t)
        \/ UseUnsynchronized(t)

(* One Conv with the default matcher, used by all the goroutines. *)
InitShared == Init /\ conf.cc = <<>> /\ ~conf.rev

SpecFirstCalls == InitShared /\ [][FirstCalls]_vars

----------------------------------------------------------------------------
(* Concurrent calls of SimpleMatcherCreator.GetMatcher, which keeps its   *)
(* matchers in a sync.Map, and of NewFieldWalker, which keeps the walkers *)
(* in a syncMap: a map guarded by a sync.RWMutex.  A goroutine takes one  *)
(* step of its call at a time.                                            *)

At(t, fn, pc) == callers[t].fn = fn /\ callers[t].pc = pc

(* goroutine t moves to pc at. *)
Step(t, at) == callers' = [callers EXCEPT ![t].pc = at]

(* GetMatcher: sync.Map.LoadOrStore is one atomic step. *)
CallGetMatcher(t) ==
    /\ callers[t].pc = "idle"
    /\ callers' = [callers EXCEPT ![t] = [fn |-> "GetMatcher", pc |-> "returned", made |-> FALSE,
                                          actual |-> IF data.matcher = 0 THEN t ELSE data.matcher,
                                          loaded |-> data.matcher # 0]]
    /\ data' = [data EXCEPT !.matcher = IF data.matcher = 0 THEN t ELSE data.matcher]
    /\ UNCHANGED <<rw, engineVars, lazyVars, cacheVars>>

(* NewFieldWalker creates its candidate and enters syncMap.LoadOrStore. *)
CallNewFieldWalker(t) ==
    /\ callers[t].pc = "idle"
    /\ callers' = [callers EXCEPT ![t].fn = "NewFieldWalker", ![t].pc = "rlock"]
    /\ UNCHANGED <<rw, data, engineVars, lazyVars, cacheVars>>

(* s.mu.RLock() *)
RLock(t) ==
    /\ At(t, "NewFieldWalker", "rlock")
    /\ rw.writer = 0
    /\ rw' = [rw EXCEPT !.readers = @ \cup {t}]
    /\ Step(t, "test")
    /\ UNCHANGED <<data, engineVars, lazyVars, cacheVars>>

(* if s.data == nil *)
TestNil(t) ==
    /\ At(t, "NewFieldWalker", "test")
    /\ Step(t, IF data.m = 0 THEN "make" ELSE "load")
    /\ UNCHANGED <<rw, data, engineVars, lazyVars, cacheVars>>

(* s.data = make(map[any]any): the map that was there is replaced. *)
Make(t) ==
    /\ At(t, "NewFieldWalker", "make")
    /\ data' = [data EXCEPT !.m = t, !.walker = 0]
    /\ callers' = [callers EXCEPT ![t].pc = "runlock", ![t].made = TRUE]
    /\ UNCHANGED <<rw, engineVars, lazyVars, cacheVars>>

(* actual, loaded = s.data[key] under the read lock *)
LoadShared(t) ==
    /\ At(t, "NewFieldWalker", "load")
    /\ callers' = [callers EXCEPT ![t].pc = "runlock", ![t].actual = data.walker, ![t].loaded = data.walker # 0]
    /\ UNCHANGED <<rw, data, engineVars, lazyVars, cacheVars>>

(* s.mu.RUnlock(); if loaded { return } *)
RUnlock(t) ==
    /\ At(t, "NewFieldWalker", "runlock")
    /\ rw' = [rw EXCEPT !.readers = @ \ {t}]
    /\ Step(t, IF callers[t].loaded THEN "returned" ELSE "wlock")
    /\ UNCHANGED <<data, engineVars, lazyVars, cacheVars>>

(* s.mu.Lock() *)
WLock(t) ==
    /\ At(t, "NewFieldWalker", "wlock")
    /\ rw.writer = 0
    /\ rw.readers = {}
    /\ rw' = [rw EXCEPT !.writer = t]
    /\ Step(t, "store")
    /\ UNCHANGED <<data, engineVars, lazyVars, cacheVars>>

(* The write-locked part without its test: the candidate is stored. *)
StoreLockedUnchecked(t) ==
    /\ At(t, "NewFieldWalker", "store")
    /\ data' = [data EXCEPT !.walker = t]
    /\ callers' = [callers EXCEPT ![t].pc = "wunlock", ![t].actual = t, ![t].loaded = FALSE]
    /\ UNCHANGED <<rw, engineVars, lazyVars, cacheVars>>

(* if actual, loaded = s.data[key]; !loaded { s.data[key] = value; actual = value } *)
StoreLocked(t) ==
    /\ At(t, "NewFieldWalker", "store")
    /\ data' = [data EXCEPT !.walker = IF data.walker = 0 THEN t ELSE data.walker]
    /\ callers' = [callers EXCEPT ![t].pc = "wunlock",
                                  ![t].actual = IF data.walker = 0 THEN t ELSE data.walker,
                                  ![t].loaded = data.walker # 0]
    /\ UNCHANGED <<rw, engineVars, lazyVars, cacheVars>>

(* s.mu.Unlock(); return *)
WUnlock(t) ==
    /\ At(t, "NewFieldWalker", "wunlock")
    /\ rw' = [rw EXCEPT !.writer = 0]
    /\ Step(t, "returned")
    /\ UNCHANGED <<data, engineVars, lazyVars, cacheVars>>

LoadOrStoreCalls ==
    \E t \in Goroutines :
        \/ CallGetMatcher(t) \/ CallNewFieldWalker(t) \/ RLock(t) \/ TestNil(t) \/ Make(t) \/ LoadShared(t)
        \/ RUnlock(t) \/ WLock(t) \/ StoreLocked(t) \/ WUnlock(t)

SpecLoadOrStore == InitShared /\ [][LoadOrStoreCalls]_vars

----------------------------------------------------------------------------
(* Calls of primitive.toPrimitive for the integer kinds, on the numbers    *)
(* at the bounds of the integer kinds and one unit beyond them.            *)

IntegerKinds == {"int8", "int16", "int32", "int64", "uint8", "uint16", "uint32", "uint64"}

KindMin(k) ==
    CASE k = "int8" -> MinInt8
      [] k = "int16" -> MinInt16
      [] k = "int32" -> MinInt32
      [] k = "int64" -> MinInt64
      [] OTHER -> 0

KindMax(k) ==
    CASE k = "int8" -> MaxInt8
      [] k = "int16" -> MaxInt16
      [] k = "int32" -> MaxInt32
      [] k = "int64" -> MaxInt64
      [] k = "uint8" -> MaxUint8
      [] k = "uint16" -> MaxUint16
      [] k = "uint32" -> MaxUint32
      [] k = "uint64" -> MaxUint64

Bounds ==
    {0, 1, -1, 5, -3}
    \cup {MinInt8 - 1, MinInt8, MaxInt8, MaxInt8 + 1, MaxUint8, MaxUint8 + 1}
    \cup {MinInt16 - 1, MinInt16, MaxInt16, MaxInt16 + 1, MaxUint16, MaxUint16 + 1}
    \cup {MinInt32 - 1, MinInt32, MaxInt32, MaxInt32 + 1, MaxUint32, MaxUint32 + 1}
    \cup {MinInt64, MaxInt64, MaxInt64 + 1, MaxUint64}

(* The integer values: every bound, as a value of every kind that holds it. *)
IntegerValues ==
    UNION {{Mk(PrimType(k), n) : n \in {m \in Bounds : ~(m < KindMin(k) \/ m > KindMax(k))}} : k \in IntegerKinds}

(* The float64 values: halves around zero and around the bounds of the 8  *)
(* and 16 bit kinds; the floats at the bounds of the 32 and 64 bit kinds,  *)
(* their neighbours (a float64 next to 2^63 is 1024 below or 2048 above    *)
(* it) and the infinities.                                                 *)
FloatValues ==
    {Mk(PrimType("float64"), h) :
        h \in {0, 1, -1, 2, -2, 3, -3, 10, 2 * MaxInt8, 2 * MaxInt8 + 1, 2 * MaxInt8 + 2, 2 * MinInt8, 2 * MinInt8 - 1,
               2 * MinInt8 - 2, 2 * MaxUint8, 2 * MaxUint8 + 1, 2 * MaxUint8 + 2, 2 * MinInt16, 2 * MinInt16 - 2,
               2 * MaxInt16, 2 * MaxInt16 + 2, 2 * MaxUint16, 2 * MaxUint16 + 1, 2 * MaxUint16 + 2}
           \cup {Wide(31, -1), Wide(31, 0), 0 - Wide(31, 0), 0 - Wide(31, 1), Wide(32, -1), Wide(32, 0)}
           \cup {Wide(63, -1024), Wide(63, 0), Wide(63, 2048), 0 - Wide(63, 0), 0 - Wide(63, 2048)}
           \cup {Wide(64, -2048), Wide(64, 0), Wide(64, 4096), Inf, 0 - Inf}}

InitPrimitive == Init /\ conf.cc = <<>> /\ ~conf.rev /\ conf.splitter = "nil"

CallToPrimitive ==
    /\ op = "new"
    /\ \E x \in IntegerValues \cup FloatValues, k \in IntegerKinds :
        /\ op' = "toPrimitive"
        /\ src' = x
        /\ dst' = PrimType(k)
        /\ out' = toPrimitive(x, k)
        /\ calls' = <<>>
        /\ UNCHANGED <<goarch, conf, first, lazyVars, cacheVars, storeVars>>

SpecPrimitive == InitPrimitive /\ [][CallToPrimitive]_vars

----------------------------------------------------------------------------
(* A sequence of MapToStruct calls on one Conv, to struct types whose      *)
(* fields are of simple types, so that a call uses the matcher of its      *)
(* destination type and no other.                                          *)

(* The number of conversions made in a sequence. *)
MaxCalls == 3

FlatMaps ==
    {MapV(typStringMap, "src", {}),
     MapV(typStringMap, "src", {Ent(StrV(<<"A">>), StrV(<<"1", "2">>)), Ent(StrV(<<"B">>), IntV(3))}),
     MapV(typStringMap, "src", {Ent(StrV(<<"V", "1">>), IntV(4))}),
     MapV(typStringMap, "src", {Ent(StrV(<<"A">>), StrV(<<"x">>))}),
     MapV(typStringMap, "src", {Ent(StrV(<<"a">>), IntV(1)), Ent(StrV(<<"A">>), IntV(2))})}

(* The matcher policies of a configured creator. *)
CreatorConfs == {DefaultMatcherConf, [DefaultMatcherConf EXCEPT !.CaseInsensitive = TRUE]}

InitConversions ==
    /\ creator \in {"nil", "set"}
    /\ matchers = [T \in IndexedTypes |-> "none"]
    /\ log = <<>>
    /\ callers = [t \in Goroutines |-> NotCalling]
    /\ rw = [readers |-> {}, writer |-> 0]
    /\ data = [m |-> 0, walker |-> 0, matcher |-> 0]
    /\ goarch = "amd64"
    /\ conf \in {[cc |-> <<>>, mc |-> mc, splitter |-> "nil", rev |-> r] :
                    mc \in IF creator = "set" THEN CreatorConfs ELSE {DefaultMatcherConf}, r \in BOOLEAN}
    /\ op = "new"
    /\ src = NilV
    /\ dst = TInvalid
    /\ out = Ok(NilV)
    /\ calls = <<>>
    /\ first = [src |-> NilV, dst |-> TInvalid, out |-> Ok(NilV)]
    /\ goroutines = [t \in Goroutines |-> [pc |-> "idle", obj |-> "none", got |-> [by |-> 0, entries |-> <<>>]]]
    /\ mu = [o \in Objects |-> 0]
    /\ published = [o \in Objects |-> [by |-> 0, entries |-> <<>>]]
    /\ built = [o \in Objects |-> {}]

(* c.fieldMatcherCreator().GetMatcher(T): the matcher the call works with, *)
(* as the state of its fs.  With Conf.FieldMatcherCreator nil the creator   *)
(* is a new SimpleMatcherCreator, whose map is empty, and the matcher is    *)
(* new; a configured creator returns the matcher it holds for T or stores   *)
(* a new one.                                                               *)
GetMatcher(T) == IF creator = "nil" \/ matchers[T] = "none" THEN "stored" ELSE matchers[T]

(* Conv.MapToStruct(m, T).  MatchField is called for every key of m, and  *)
(* the first MatchField on a matcher whose fs is nil runs initFieldMap.    *)
CallMapToStruct ==
    /\ Len(log) < MaxCalls
    /\ \E m \in FlatMaps, T \in IndexedTypes :
        /\ op' = "MapToStruct"
        /\ src' = m
        /\ dst' = T
        /\ out' = MapToStruct(conf, m, T)
        /\ log' = Append(log, [typ |-> T, built |-> m.v.m # {} /\ GetMatcher(T) = "stored"])
        /\ matchers' = IF creator = "nil" THEN matchers
                       ELSE [matchers EXCEPT ![T] = IF m.v.m # {} THEN "built" ELSE GetMatcher(T)]
        /\ UNCHANGED <<goarch, conf, calls, first, creator, lazyVars, storeVars>>

SpecConversions == InitConversions /\ [][CallMapToStruct]_vars

----------------------------------------------------------------------------
(* The package functions of shortcut.go, which work on defaultConv.        *)

(* new(Conv) *)
defaultConv == [cc |-> <<>>, mc |-> DefaultMatcherConf, splitter |-> "nil", rev |-> FALSE]

(* The arguments: nil, the simple values, strings with a percent sign, a   *)
(* pointer, a slice and a struct.                                           *)
ShortcutSources ==
    {NilV} \cup SimpleValues
    \cup {StrV(<<"%">>), StrV(<<"5", "%">>), StrV(<<"%", "5">>), StrV(<<"%", "%">>), StrV(<<"%", "x">>)}
    \cup {Zero(PtrTo(TInt)), SliceV(SliceOf(TInt), "src", <<IntV(1)>>), Mk(TStruct("E"), <<IntV(1)>>)}

(* The numeric shortcuts of the model, by the kind they convert to. *)
NumberShortcuts == [int |-> "Int", int8 |-> "Int8", uint8 |-> "Uint8", float64 |-> "Float64"]

InitShortcuts ==
    /\ creator = "nil"
    /\ matchers = [T \in IndexedTypes |-> "none"]
    /\ log = <<>>
    /\ callers = [t \in Goroutines |-> NotCalling]
    /\ rw = [readers |-> {}, writer |-> 0]
    /\ data = [m |-> 0, walker |-> 0, matcher |-> 0]
    /\ goarch = "amd64"
    /\ conf \in {[defaultConv EXCEPT !.rev = r] : r \in BOOLEAN}
    /\ op = "new"
    /\ src = NilV
    /\ dst = TInvalid
    /\ out = Ok(NilV)
    /\ calls = <<>>
    /\ first = [src |-> NilV, dst |-> TInvalid, out |-> Ok(NilV)]
    /\ goroutines = [t \in Goroutines |-> [pc |-> "idle", obj |-> "none", got |-> [by |-> 0, entries |-> <<>>]]]
    /\ mu = [o \in Objects |-> 0]
    /\ published = [o \in Objects |-> [by |-> 0, entries |-> <<>>]]
    /\ built = [o \in Objects |-> {}]

(* conv.Bool(v) *)
CallBool ==
    /\ op = "new"
    /\ \E v \in ShortcutSources :
        /\ op' = "Bool"
        /\ src' = v
        /\ dst' = TBool
        /\ out' = SimpleToBool(conf, v)
        /\ UNCHANGED <<goarch, conf, calls, first, lazyVars, cacheVars, storeVars>>

(* conv.Int(v), conv.Int8(v), conv.Uint8(v), conv.Float64(v) *)
CallNumber ==
    /\ op = "new"
    /\ \E v \in ShortcutSources, k \in DOMAIN NumberShortcuts :
        /\ op' = NumberShortcuts[k]
        /\ src' = v
        /\ dst' = PrimType(k)
        /\ out' = simpleToPrimitive(conf, v, k)
        /\ UNCHANGED <<goarch, conf, calls, first, lazyVars, cacheVars, storeVars>>

(* conv.Time(v) *)
CallTime ==
    /\ op = "new"
    /\ \E v \in ShortcutSources :
        /\ op' = "Time"
        /\ src' = v
        /\ dst' = typTime
        /\ out' = SimpleToSimple(conf, v, typTime)
        /\ UNCHANGED <<goarch, conf, calls, first, lazyVars, cacheVars, storeVars>>

(* conv.ConvertType(src, dstTyp) *)
CallPackageConvertType ==
    /\ op = "new"
    /\ \E v \in ShortcutSources, T \in {TInt, TBool, typTime, SliceOf(TInt), TStruct("E")} :
        /\ op' = "ConvertType"
        /\ src' = v
        /\ dst' = T
        /\ out' = ConvertType(conf, v, T)
        /\ calls' = convertTypeHead(conf, v, T).calls
        /\ UNCHANGED <<goarch, conf, first, lazyVars, cacheVars, storeVars>>

NextShortcuts == CallBool \/ CallNumber \/ CallTime \/ CallPackageConvertType

SpecShortcuts == InitShortcuts /\ [][NextShortcuts]_vars

----------------------------------------------------------------------------
(* Calls of a simpleMatcher and of a FieldWalker: MatchField on the        *)
(* matcher of a struct type, fixName on two names in turn, and WalkFields  *)
(* with a callback that asks for every field.                              *)

(* SimpleMatcherConfig: every combination of the options, the tag name    *)
(* empty or "c".                                                           *)
MatcherConfs ==
    {[Tag |-> tag, CaseInsensitive |-> ci, OmitUnderscore |-> ou, CamelSnakeCase |-> cs] :
        tag \in {<<>>, <<"c">>}, ci \in BOOLEAN, ou \in BOOLEAN, cs \in BOOLEAN}

(* The names handed to fixName: those of at most MaxNameLen runes out of  *)
(* a lower-case letter, its upper-case letter and the underscore.          *)
MaxNameLen == 4
NameRunes == {"a", "A", "_"}
Names == UNION {[1..n -> NameRunes] : n \in 0..MaxNameLen}

(* The struct types a matcher or a walker is made for. *)
RecordTypes ==
    {TStruct(n) : n \in {"P1", "P2", "E", "T", "HA", "HB", "HC", "Ec", "Eb", "WT", "TA", "TB", "TT", "F", "U", "Uc",
                         "D1", "D2", "D3", "D4"}}

(* The external names: the names above and every field name and tag value *)
(* of the struct types.                                                    *)
ExternalNames ==
    Names \cup UNION {UNION {{StructFields(T)[i].Name, StructFields(T)[i].Tag.val} : i \in 1..NumField(T)} : T \in RecordTypes}

InitFields ==
    /\ creator = "nil"
    /\ matchers = [T \in IndexedTypes |-> "none"]
    /\ log = <<>>
    /\ callers = [t \in Goroutines |-> NotCalling]
    /\ rw = [readers |-> {}, writer |-> 0]
    /\ data = [m |-> 0, walker |-> 0, matcher |-> 0]
    /\ goarch = "amd64"
    /\ conf \in {[cc |-> <<>>, mc |-> mc, splitter |-> "nil", rev |-> FALSE] : mc \in MatcherConfs}
    /\ op = "new"
    /\ src = NilV
    /\ dst = TInvalid
    /\ out = Ok(NilV)
    /\ calls = <<>>
    /\ first = [src |-> NilV, dst |-> TInvalid, out |-> Ok(NilV)]
    /\ goroutines = [t \in Goroutines |-> [pc |-> "idle", obj |-> "none", got |-> [by |-> 0, entries |-> <<>>]]]
    /\ mu = [o \in Objects |-> 0]
    /\ published = [o \in Objects |-> [by |-> 0, entries |-> <<>>]]
    /\ built = [o \in Objects |-> {}]

(* SimpleMatcherCreator{conf.mc}.GetMatcher(T).MatchField(name) *)
CallMatchField ==
    /\ op = "new"
    /\ \E T \in RecordTypes, name \in ExternalNames :
        /\ op' = "MatchField"
        /\ src' = StrV(name)
        /\ dst' = T
        /\ out' = Ok(MatchField(conf.mc, T, name))
        /\ UNCHANGED <<goarch, conf, calls, first, lazyVars, cacheVars, storeVars>>

(* fixName(name) of a matcher, for a first name and then for a second. *)
CallFixName ==
    /\ op \in {"new", "fixName"}
    /\ first.src = NilV
    /\ \E name \in Names :
        /\ op' = "fixName"
        /\ src' = StrV(name)
        /\ dst' = TString
        /\ out' = Ok(StrV(fixName(conf.mc, name)))
        /\ first' = IF op = "new" THEN first ELSE [src |-> src, dst |-> dst, out |-> out]
        /\ UNCHANGED <<goarch, conf, calls, lazyVars, cacheVars, storeVars>>

(* NewFieldWalker(T, tagName).WalkFields(callback), the callback returning *)
(* true: out is the list of the FieldInfo it was called with.              *)
CallWalkFields ==
    /\ op = "new"
    /\ \E T \in RecordTypes :
        /\ op' = "WalkFields"
        /\ src' = StrV(conf.mc.Tag)
        /\ dst' = T
        /\ out' = Ok(initFields(T, conf.mc.Tag))
        /\ UNCHANGED <<goarch, conf, calls, first, lazyVars, cacheVars, storeVars>>

NextFields == CallMatchField \/ CallFixName \/ CallWalkFields

SpecFields == InitFields /\ [][NextFields]_vars

----------------------------------------------------------------------------
(* The claims about ConvertType and Convert *)

(* C1: with no custom converters and a destination type T other than the *)
(* empty interface, a ConvertType that returns without error returns a    *)
(* value whose dynamic type is exactly T, every pointer layer included.    *)
C1_ResultTypeIsDst ==
    (op \in {"ConvertType", "Back"} /\ conf.cc = <<>> /\ dst # typEmptyInterface /\ out.st = "ok") => out.val.t = dst

(* C2: with no custom converters ConvertType ends by returning a value or *)
(* an error for every source and destination type; it never panics.      *)
C2_ConvertTypeNeverPanics ==
    (op \in {"ConvertType", "Back"} /\ conf.cc = <<>>) => out.st \in {"ok", "err"}

(* The custom-converter step of the last ConvertType call, read off the   *)
(* invocations it made: they are converters 1, 2, ... in registration     *)
(* order, each given (src, dst) and returning what that converter returns; *)
(* where the step applies, converter k was invoked exactly when every      *)
(* converter before it was invoked and returned (nil, nil); an error ends  *)
(* the call with the converter's position and message, a non-nil result    *)
(* is the result.                                                          *)
ConvertersStep(applies) ==
    LET passed(j) == j \in DOMAIN calls /\ IsNil(calls[j].res) /\ calls[j].err = <<>>
    IN  /\ \A j \in DOMAIN calls :
              /\ calls[j].i = j /\ calls[j].src = src /\ calls[j].typ = dst
              /\ [res |-> calls[j].res, err |-> calls[j].err] = CustomConverter(conf.cc[j], src, dst)
        /\ applies => \A k \in DOMAIN conf.cc : (k \in DOMAIN calls) <=> (\A j \in 1..(k - 1) : passed(j))
        /\ \A k \in DOMAIN calls :
              /\ calls[k].err # <<>> => out = Err(converterErr("ConvertType", k, calls[k].err))
              /\ (calls[k].err = <<>> /\ ~IsNil(calls[k].res)) => out = Ok(calls[k].res)

(* C3, as stated: in every ConvertType call converter k is invoked if and *)
(* only if every converter registered before it returned (nil, nil); the  *)
(* first non-nil result is the result and the first error is returned as  *)
(* "conv.ConvertType: converter[k]: <message>".                           *)
C3_ConvertersAlwaysRun == op \in {"ConvertType", "Back"} => ConvertersStep(TRUE)

(* C3, amended: the same for every ConvertType call that reaches the      *)
(* custom-converter step; a call for the empty-interface type, or with a  *)
(* nil source for a pointer type, returns before it and invokes none.     *)
C3_ConvertersInOrder ==
    op \in {"ConvertType", "Back"} =>
        IF dst = typEmptyInterface THEN calls = <<>> /\ out = Ok(src)
        ELSE IF IsNil(src) /\ dst.k = "ptr" THEN calls = <<>> /\ out = Ok(Mk(dst, [id |-> "new", to |-> <<>>]))
        ELSE ConvertersStep(TRUE)

(* A call in which the first converter passed and the second returned an *)
(* error, a third being registered.                                      *)
C3_Witness ==
    /\ op = "ConvertType" /\ Len(conf.cc) = 3 /\ Len(calls) = 2
    /\ IsNil(calls[1].res) /\ calls[1].err = <<>> /\ calls[2].err # <<>>
    /\ out.st = "err"

(* A value with the identities of its allocations erased: what is left is *)
(* what reflect.DeepEqual compares.                                        *)
RECURSIVE Plain(_)
Plain(x) ==
    CASE x.t \in {typTime, TMyTime} -> x
      [] x.t.k = "ptr" -> Mk(x.t, [id |-> "", to |-> [i \in DOMAIN x.v.to |-> Plain(x.v.to[i])]])
      [] x.t.k = "slice" -> Mk(x.t, [id |-> "", nil |-> x.v.nil, e |-> [i \in DOMAIN x.v.e |-> Plain(x.v.e[i])]])
      [] x.t.k = "map" -> Mk(x.t, [id |-> "", nil |-> x.v.nil, m |-> {Ent(Plain(e.k), Plain(e.v)) : e \in x.v.m}])
      [] x.t.k = "struct" -> Mk(x.t, [i \in DOMAIN x.v |-> Plain(x.v[i])])
      [] OTHER -> x

(* C4: for every Conv, every src and every dstPtr of type *T whose chain  *)
(* of pointers is initialized, Convert(src, dstPtr) returns an error       *)
(* exactly when ConvertType(src, T) does, and when it succeeds the value   *)
(* stored in *dstPtr equals the value ConvertType(src, T) returns.         *)
C4_ConvertLikeConvertType ==
    (op = "Convert" /\ ~IsNil(dst) /\ dst.t.k = "ptr" /\ ValidAt(dst, PtrDepth(dst.t))) =>
        LET same(r) ==
                /\ (out.st = "err") <=> (r.st = "err")
                /\ out.st = "ok" => (r.st = "ok" /\ Plain(out.val.v.to[1]) = Plain(r.val))
        IN  same(ConvertType(conf, src, dst.t.elem))

(* C6: for a map[string]interface{} m with exactly one entry, whose key  *)
(* is the empty string and whose value is v, and a destination type T     *)
(* other than the empty interface, ConvertType(m, T) ends as              *)
(* ConvertType(v, T) does, T with all its pointer layers: both return an  *)
(* error, or both return a value and the values are equal.                *)
C6_FlattenLikeValue ==
    (/\ op = "ConvertType" /\ src.t = typStringMap /\ dst # typEmptyInterface
     /\ Cardinality(src.v.m) = 1 /\ (\A e \in src.v.m : e.k = StrV(<<>>))) =>
        LET same(r) == out.st = r.st /\ (out.st = "ok" => Plain(out.val) = Plain(r.val))
            value(e) == same(ConvertType(conf, e.v, dst))
        IN  value(CHOOSE e \in src.v.m : TRUE)

(* C7: with no custom converters, converting a simple value v of type T  *)
(* to the type with d pointer layers over T, d from 0 to MaxDepth,         *)
(* succeeds and returns a chain of d non-nil pointers that ends in a value *)
(* equal to v; converting that result back to T returns v.                 *)
C7_PointerRoundTrip ==
    /\ (op = "ConvertType" /\ conf.cc = <<>> /\ src \in SimpleValues /\ StripPtr(dst) = src.t) =>
            out = Ok(wrapPtr(src, PtrDepth(dst), "new"))
    /\ (op = "Back" /\ conf.cc = <<>> /\ first.src \in SimpleValues /\ StripPtr(first.dst) = first.src.t) =>
            out = Ok(first.src)

(* C8: with no custom converters, ConvertType(x, typeof(x)) for a struct *)
(* value x succeeds and returns a value deeply equal to x.                *)
C8_CloneEqual ==
    (/\ op = "ConvertType" /\ conf.cc = <<>>
     /\ src.t.k = "struct" /\ src.t \notin {typTime, TMyTime} /\ dst = src.t) =>
        (out.st = "ok" /\ Plain(out.val) = Plain(src))

(* The allocations reachable from a value: the pointer targets, slice   *)
(* backing arrays and maps, named by who allocated them ("src" the caller, *)
(* "new" the call).                                                        *)
RECURSIVE Allocations(_)
Allocations(x) ==
    CASE x.t \in {typTime, TMyTime} -> {}
      [] x.t.k = "ptr" -> IF x.v.to = <<>> THEN {} ELSE {x.v.id} \cup Allocations(x.v.to[1])
      [] x.t.k = "slice" -> IF x.v.nil THEN {} ELSE {x.v.id} \cup UNION {Allocations(x.v.e[i]) : i \in DOMAIN x.v.e}
      [] x.t.k = "map" ->
            IF x.v.nil THEN {} ELSE {x.v.id} \cup UNION {Allocations(e.k) \cup Allocations(e.v) : e \in x.v.m}
      [] x.t.k = "struct" -> UNION {Allocations(x.v[i]) : i \in DOMAIN x.v}
      [] OTHER -> {}

(* C9: with no custom converters, the value ConvertType(x, typeof(x))    *)
(* returns for a struct x shares no pointer target, slice backing array   *)
(* or map with x: everything reachable from it was allocated by the call. *)
C9_CloneIndependent ==
    (/\ op = "ConvertType" /\ conf.cc = <<>> /\ out.st = "ok"
     /\ src.t.k = "struct" /\ src.t \notin {typTime, TMyTime} /\ dst = src.t) =>
        "src" \notin Allocations(out.val)

(* The struct types all of whose fields are of a primitive type or of    *)
(* time.Time.                                                             *)
OnlyPrimitiveOrTimeFields(T) ==
    /\ T.k = "struct"
    /\ T \notin {typTime, TMyTime}
    /\ \A i \in DOMAIN StructFields(T) : IsPrimitiveType(StructFields(T)[i].Type) \/ StructFields(T)[i].Type = typTime

(* C10: with no custom converters, converting a struct r whose fields are *)
(* all of primitive or time types to map[string]interface{} succeeds, and *)
(* converting that map back to the type of r succeeds and yields a value   *)
(* equal to r.                                                            *)
C10_StructMapRoundTrip ==
    /\ (/\ op = "ConvertType" /\ conf.cc = <<>>
        /\ OnlyPrimitiveOrTimeFields(src.t) /\ dst = typStringMap) => out.st = "ok"
    /\ (/\ op = "Back" /\ conf.cc = <<>>
        /\ OnlyPrimitiveOrTimeFields(first.src.t) /\ first.dst = typStringMap) => out = Ok(first.src)

(* The last call was answered by MapToStruct or by StructToStruct: a      *)
(* ConvertType call for a struct type that no custom converter answered,  *)
(* with a non-nil map[string]interface{} that is not flattened or with a  *)
(* struct as its source.                                                  *)
ByMapToStruct ==
    /\ op = "ConvertType" /\ dst.k = "struct" /\ convertTypeHead(conf, src, dst).at = "none"
    /\ src.t = typStringMap /\ ~src.v.nil /\ IsNil(tryFlattenEmptyKeyMap(src))

ByStructToStruct ==
    /\ op = "ConvertType" /\ dst.k = "struct" /\ convertTypeHead(conf, src, dst).at = "none"
    /\ src.t.k = "struct" /\ ~(IsSimpleType(src.t) /\ IsSimpleType(dst))

(* The keys of the map, or the field names WalkValues reports for the     *)
(* struct, each with its value.                                           *)
PresentFields(x) ==
    IF x.t.k = "map" THEN {[name |-> e.k.v, v |-> e.v] : e \in x.v.m}
    ELSE {[name |-> it.fi.Name, v |-> it.v] :
             it \in {WalkValues(x.t, <<>>, x)[i] : i \in {j \in DOMAIN WalkValues(x.t, <<>>, x) : WalkValues(x.t, <<>>, x)[j].st = "ok"}}}

(* The present keys or fields that match a field of T and whose value     *)
(* ConvertType refuses to convert to the type of that field.              *)
FailingFields(c, x, T) ==
    {p \in PresentFields(x) :
        /\ MatchField(c.mc, T, p.name).ok
        /\ ConvertType(c, p.v, MatchField(c.mc, T, p.name).field.Type).st = "err"}

(* The error message names the field. *)
NamesField(err, name) ==
    \E i \in DOMAIN err :
        /\ err[i] \in {"error on converting field '", "error on converting field "}
        /\ i + Len(name) <= Len(err)
        /\ SubSeq(err, i + 1, i + Len(name)) = name

----------------------------------------------------------------------------
(* The claims about the conversions to the integer kinds *)

IsIntegerKind(k) == isKindInt(k) \/ isKindUint(k)
ValueOverflow(o) == o.st = "err" /\ o.err[1] = "value overflow when converting "
PrecisionLoss(o) == o.st = "err" /\ o.err[1] = "lost precision when converting "

(* C11: converting an integer n of any signed or unsigned integer kind to *)
(* an integer kind K returns n as a K when min(K) <= n <= max(K), and     *)
(* fails with a value-overflow error when n is outside that range.        *)
C11_IntegerRange ==
    (op = "toPrimitive" /\ IsIntegerKind(src.t.k)) =>
        IF KindMin(dst.k) <= src.v /\ src.v <= KindMax(dst.k)
        THEN out = Ok(Mk(dst, src.v))
        ELSE ValueOverflow(out)

(* The uint64 one unit beyond the largest int64 was refused as an int64,  *)
(* and was returned as a uint64.                                          *)
C11_Witness ==
    /\ op = "toPrimitive"
    /\ src = Mk(PrimType("uint64"), MaxInt64 + 1)
    /\ \/ dst.k = "int64" /\ ValueOverflow(out)
       \/ dst.k = "uint64" /\ out = Ok(src)

(* The number a float payload without a fractional part stands for. *)
HasFraction(f) == ~IsWide(f) /\ f % 2 # 0
WholeOf(f) == IF IsWide(f) THEN f ELSE f \div 2

(* C12: a float without a fractional part is converted to an integer kind *)
(* K only if it lies within [min(K), max(K)], and then to that number;    *)
(* for every float outside the range the conversion fails with a          *)
(* value-overflow error.                                                  *)
C12_FloatRange ==
    (op = "toPrimitive" /\ isKindFloat(src.t.k) /\ ~HasFraction(src.v)) =>
        IF KindMin(dst.k) <= WholeOf(src.v) /\ WholeOf(src.v) <= KindMax(dst.k)
        THEN out.st = "ok" => out.val = Mk(dst, WholeOf(src.v))
        ELSE ValueOverflow(out)

(* C13, as stated: converting a float with a fractional part to an        *)
(* integer kind, signed or unsigned, fails with a precision-loss error.   *)
C13_FractionIsPrecisionLoss ==
    (op = "toPrimitive" /\ isKindFloat(src.t.k) /\ HasFraction(src.v)) => PrecisionLoss(out)

(* C13, amended: the conversion fails, with a precision-loss error unless *)
(* the float is negative and the kind unsigned, and then with a           *)
(* value-overflow error.                                                  *)
C13_FractionFails ==
    (op = "toPrimitive" /\ isKindFloat(src.t.k) /\ HasFraction(src.v)) =>
        IF isKindUint(dst.k) /\ src.v < 0 THEN ValueOverflow(out) ELSE PrecisionLoss(out)

(* -128.5 was refused as a uint16 and as an int8. *)
C13_Witness ==
    /\ op = "toPrimitive"
    /\ src = Mk(PrimType("float64"), 2 * MinInt8 - 1)
    /\ \/ dst.k = "uint16" /\ ValueOverflow(out)
       \/ dst.k = "int8" /\ PrecisionLoss(out)

----------------------------------------------------------------------------
(* The claims about the field matcher and the field walker *)

(* The name a walker's entry goes by: its tag value, else its field name. *)
ExternalName(e) == IF e.TagValue # <<>> THEN e.TagValue ELSE e.Name

(* The entries among es that name folds to under the matcher's options. *)
Fitting(mc, es, name) == {j \in 1..Len(es) : fixName(mc, ExternalName(es[j])) = fixName(mc, name)}

Least(S) == CHOOSE j \in S : \A k \in S : j <= k

(* C15: the matcher of a struct type indexes exactly the fields that its  *)
(* FieldWalker enumerates: MatchField finds a field for an external name   *)
(* if and only if the name fits an entry of the walker, and the field it   *)
(* returns is the first such entry, so the fields promoted from embedded   *)
(* structs are matched and a shallower field hides a deeper one.           *)
C15_IndexesWalkedFields ==
    op = "MatchField" =>
        LET same(f, e) == f.Name = e.Name /\ f.Type = e.Type
            agree(es, S) ==
                /\ out.val.ok = (S # {})
                /\ out.val.ok => same(out.val.field, es[Least(S)])
            walked(es) == agree(es, Fitting(conf.mc, es, src.v))
        IN  walked(initFields(dst, conf.mc.Tag))

(* The name a matcher indexes a field under, before folding. *)
ResolvedName(mc, f) == IF TagGet(f, mc.Tag) # <<>> THEN TagGet(f, mc.Tag) ELSE f.Name

(* The exported fields among fs whose name folds to what name folds to. *)
Candidates(mc, fs, name) ==
    {i \in 1..Len(fs) : ~fs[i].PkgPath /\ fixName(mc, ResolvedName(mc, fs[i])) = fixName(mc, name)}

(* C16: for every external name, MatchField finds a field if and only if  *)
(* some exported field of the type folds to the same name, and the field   *)
(* it returns is the one of them declared first; a field declared after    *)
(* another that folds to the same name is returned for no name.            *)
C16_FirstFieldWins ==
    op = "MatchField" =>
        LET first_wins(fs, S) ==
                /\ out.val.ok = (S # {})
                /\ out.val.ok => /\ out.val.field.Name = fs[Least(S)].Name
                                 /\ out.val.field.Type = fs[Least(S)].Type
                                 /\ out.val.field.Index.v = <<Least(S)>>
            of(fs) == first_wins(fs, Candidates(conf.mc, fs, src.v))
        IN  of(StructFields(dst))

(* MatchField was asked for a name that several fields fold to. *)
C16_Witness ==
    /\ op = "MatchField"
    /\ Cardinality(Candidates(conf.mc, StructFields(dst), src.v)) >= 2
    /\ out.val.ok
    /\ out.val.field.Name # StructFields(dst)[1].Name

(* fixName was called for a first and for a second name. *)
TwoNames == op = "fixName" /\ first.src # NilV

LowerCase(n) == [i \in 1..Len(n) |-> ToLowerRune(n[i])]
WithoutUnderscores(n) == SelectSeq(n, LAMBDA c : c # "_")

(* The name compared when only the option of the highest precedence that  *)
(* is set applies.                                                         *)
ByPrecedence(mc, n) ==
    IF mc.CaseInsensitive THEN LowerCase(n)
    ELSE IF mc.OmitUnderscore THEN WithoutUnderscores(n)
    ELSE IF mc.CamelSnakeCase THEN fixCamelSnakeCaseName(n)
    ELSE n

(* The name compared when caseInsensitive and omitUnderscore both apply   *)
(* if set and camelSnakeCase applies if neither is set.                    *)
Combined(mc, n) ==
    LET lower(m) == IF mc.CaseInsensitive THEN LowerCase(m) ELSE m
        omit(m) == IF mc.OmitUnderscore THEN WithoutUnderscores(m) ELSE m
    IN  IF mc.CaseInsensitive \/ mc.OmitUnderscore THEN omit(lower(n))
        ELSE IF mc.CamelSnakeCase THEN fixCamelSnakeCaseName(n)
        ELSE n

(* C17 as stated: the options exclude each other by precedence.  Two names *)
(* match if and only if they are equal after the folding of the option of  *)
(* the highest precedence that is set, and a field that declares a tag is  *)
(* matched by the literal tag value only.                                  *)
C17_ExclusivePrecedence ==
    /\ TwoNames => ((out.val = first.out.val) <=> (ByPrecedence(conf.mc, src.v) = ByPrecedence(conf.mc, first.src.v)))
    /\ (op = "MatchField" /\ out.val.ok /\ TagGet(out.val.field, conf.mc.Tag) # <<>>)
            => src.v = TagGet(out.val.field, conf.mc.Tag)

(* C17 amended: caseInsensitive and omitUnderscore are both applied when   *)
(* both are set, camelSnakeCase applies only when neither is set, and the  *)
(* tag name only selects the name a field goes by (its tag value if it     *)
(* declares one, else its field name), which is folded like the external   *)
(* name.  Two names match if and only if they are equal after that         *)
(* folding, and the field MatchField returns goes by a name that matches   *)
(* the external name.                                                      *)
C17_OptionsCombine ==
    /\ TwoNames => ((out.val = first.out.val) <=> (Combined(conf.mc, src.v) = Combined(conf.mc, first.src.v)))
    /\ (op = "MatchField" /\ out.val.ok)
            => Combined(conf.mc, ResolvedName(conf.mc, out.val.field)) = Combined(conf.mc, src.v)

(* Two names that match under caseInsensitive and omitUnderscore together  *)
(* and under neither of them alone.                                        *)
C17_Witness ==
    /\ TwoNames
    /\ conf.mc.CaseInsensitive /\ conf.mc.OmitUnderscore
    /\ out.val = first.out.val
    /\ LowerCase(src.v) # LowerCase(first.src.v)
    /\ WithoutUnderscores(src.v) # WithoutUnderscores(first.src.v)

(* fixName was called for two names under the camelSnakeCase policy. *)
TwoCamelSnakeNames ==
    TwoNames /\ conf.mc.CamelSnakeCase /\ ~conf.mc.CaseInsensitive /\ ~conf.mc.OmitUnderscore

IsLower(c) == \E i \in 1..26 : Lowers[i] = c

(* The underscores that separate two words: an underscore that is neither *)
(* the first nor the last rune and does not follow such an underscore (a   *)
(* second underscore in a row is a rune of the next word).                 *)
RECURSIVE Delimiter(_, _)
Delimiter(n, i) == n[i] = "_" /\ 1 < i /\ i < Len(n) /\ ~Delimiter(n, i - 1)

(* A word start as the claim has it, and as it is when every upper-case   *)
(* rune starts a word.                                                     *)
WordStartAfterLower(n, i) ==
    \/ i = 1
    \/ i > 1 /\ IsUpper(n[i]) /\ IsLower(n[i - 1])
    \/ i > 1 /\ Delimiter(n, i - 1)
WordStart(n, i) ==
    \/ i = 1
    \/ IsUpper(n[i])
    \/ i > 1 /\ Delimiter(n, i - 1)

(* The runes of a name that are compared, each with its place in a word:  *)
(* a word start counts without its case, every other rune as it is.       *)
Structure(n, Start(_, _)) ==
    LET RECURSIVE from(_)
        from(i) ==
            IF i > Len(n) THEN <<>>
            ELSE IF Delimiter(n, i) THEN from(i + 1)
            ELSE <<[start |-> Start(n, i), rune |-> IF Start(n, i) THEN ToLowerRune(n[i]) ELSE n[i]]>> \o from(i + 1)
    IN  from(1)

C19_ExternalNamesDistinct ==
    op = "WalkFields" =>
        \A i, j \in 1..Len(out.val) : ExternalName(out.val[i]) = ExternalName(out.val[j]) => i = j

(* The dotted path of the field that index leads to from the type T,      *)
(* through embedded structs and pointers to them; "?" where the index      *)
(* leads to no field.                                                      *)
RECURSIVE PathAt(_, _)
PathAt(T, index) ==
    LET step(fs, i) ==
            IF i > Len(fs) THEN <<"?">>
            ELSE IF Len(index) = 1 THEN fs[i].Name
            ELSE fs[i].Name \o <<".">> \o PathAt(fs[i].Type, Tail(index))
    IN  IF index = <<>> THEN <<"?">> ELSE step(StructFields(StripPtr(T)), Head(index))

(* C20: the index path of every entry a FieldWalker produces leads, from  *)
(* the root type, to the field the entry's dotted path names, and no two   *)
(* entries have the same index path.                                       *)
C20_IndexResolvesPath ==
    op = "WalkFields" =>
        /\ \A i \in 1..Len(out.val) : PathAt(dst, out.val[i].Index.v) = out.val[i].Path
        /\ \A i, j \in 1..Len(out.val) : out.val[i].Index.v = out.val[j].Index.v => i = j

----------------------------------------------------------------------------
(* The claims about the preconditions and the messages of the public calls *)

(* C22: Convert panics, and returns no error, with the message            *)
(* "conv.Convert: the destination value must be a pointer" whenever dstPtr *)
(* is no pointer and with "conv.Convert: the pointer must be initialized"  *)
(* whenever dstPtr is a nil pointer, whatever src is, nil included.        *)
C22_PreconditionPanics ==
    op = "Convert" =>
        /\ (IsNil(dst) \/ dst.t.k # "ptr")
                => out = Panic(<<"conv.Convert: ", "the destination value must be a pointer">>)
        /\ (~IsNil(dst) /\ dst.t.k = "ptr" /\ dst.v.to = <<>>)
                => out = Panic(<<"conv.Convert: ", "the pointer must be initialized">>)

(* Convert was called with a nil source and a nil pointer. *)
C22_Witness ==
    /\ op = "Convert"
    /\ IsNil(src)
    /\ ~IsNil(dst) /\ dst.t.k = "ptr" /\ dst.v.to = <<>>
    /\ out.st = "panic"

(* C23: for every initialized pointer dstPtr and every configuration,    *)
(* Convert(nil, dstPtr) returns nil and leaves what dstPtr leads to, at   *)
(* every pointer depth, as it was; a value an earlier successful Convert  *)
(* stored is still there.                                                  *)
C23_NilSourceLeavesDst ==
    /\ (op \in {"Convert", "ConvertNil"} /\ IsNil(src) /\ ~IsNil(dst) /\ dst.t.k = "ptr" /\ dst.v.to # <<>>)
            => out = Ok(dst)
    /\ op = "ConvertNil" => out = Ok(first.out.val)

(* Convert stored a value in an int behind two pointers and the call with *)
(* a nil source came after it.                                             *)
C23_Witness ==
    /\ op = "ConvertNil"
    /\ ~IsNil(first.src)
    /\ first.dst.t = PtrTo(PtrTo(TInt))
    /\ first.out.val # first.dst
    /\ out = Ok(first.out.val)

(* C24: every error a public conversion function returns has a message   *)
(* "conv.<FunctionName>: <detail>" with the name of the outermost public   *)
(* function that was called, and a failure of a nested call is reproduced  *)
(* in <detail> unchanged, with its own "conv.<FunctionName>: " prefix.     *)
C24_ErrorsNameTheCall ==
    (op # "new" /\ out.st = "err") =>
        /\ out.err[1] = "conv." \o op \o ": "
        /\ (op = "ConvertType" /\ convertToNonPtr(conf, src, dst).st = "err")
                => out.err = <<"conv.ConvertType: ">> \o convertToNonPtr(conf, src, dst).err

(* The values the map holds for the key name. *)
EntriesAt(m, name) == {e.v : e \in {x \in m.v.m : x.k = StrV(name)}}

(* What a map gets for a value that is no pointer: the map of a struct,   *)
(* the value itself for a number.                                          *)
LikePointee(x) == IF x.t.k = "struct" THEN StructToMap(conf, x).val ELSE x

C26_ConvertersReceiveT ==
    (op = "Convert" /\ ~IsNil(src) /\ ~IsNil(dst) /\ dst.t.k = "ptr" /\ dst.v.to # <<>>)
    => /\ convertConverters(conf.cc, src, dst, 0, 1, <<>>).st # "panic"
       /\ \A i \in 1..Len(convertConverters(conf.cc, src, dst, 0, 1, <<>>).types) :
             convertConverters(conf.cc, src, dst, 0, 1, <<>>).types[i] = dst.t.elem

(* ConvertType hands the source of the call to simpleToTime: no converter *)
(* answers, and the source and the destination are simple types, the      *)
(* destination one convertible to time.Time.                              *)
CallsSimpleToTime ==
    /\ op = "ConvertType"
    /\ dst # typEmptyInterface
    /\ convertTypeHead(conf, src, dst).at = "none"
    /\ ~IsNil(getUnderlyingValue(src))
    /\ IsSimpleType(getUnderlyingValue(src).t)
    /\ ConvertibleToTime(StripPtr(dst))

(* C30: for every source whose type satisfies IsSimpleType simpleToTime   *)
(* handles the value in its time, string or primitive branch; its final   *)
(* "cannot convert ... to time.Time" is not reached from SimpleToSimple    *)
(* and ConvertType.                                                        *)
C30_FallbackUnreachable ==
    CallsSimpleToTime =>
        /\ \/ getUnderlyingValue(src).t = typTime
           \/ getUnderlyingValue(src).t.k = "string"
           \/ IsPrimitiveType(getUnderlyingValue(src).t)
        /\ simpleToTime(conf, getUnderlyingValue(src))
               # Err(errCantConvertTo(getUnderlyingValue(src), "time.Time"))

----------------------------------------------------------------------------
(* The claims about a sequence of conversions on one Conv *)

(* The conversions made so far in which initFieldMap ran for type T. *)
BuildsOf(T) == {i \in 1..Len(log) : log[i].typ = T /\ log[i].built}

(* C21: over a sequence of conversions with one Conv, with the default    *)
(* configuration or with a configured creator, the name index of a         *)
(* destination type is built at most once.                                 *)
C21_IndexBuiltOncePerType == \A T \in IndexedTypes : Cardinality(BuildsOf(T)) <= 1

(* The outcome of the call with the entries of the map visited in the     *)
(* opposite order.                                                         *)
InOppositeOrder == MapToStruct([conf EXCEPT !.rev = ~conf.rev], src, dst)

(* C29: for a fixed matcher policy, source map and destination type the    *)
(* struct MapToStruct returns, or the fact that it returns an error, does  *)
(* not depend on the order in which the keys of the map are visited, also  *)
(* when two keys fold to one field.                                        *)
C29_OrderIndependent ==
    op = "MapToStruct" =>
        /\ out.st = InOppositeOrder.st
        /\ out.st = "ok" => out.val = InOppositeOrder.val

----------------------------------------------------------------------------
(* The claims about the lazily built indexes *)

(* C5: whatever the interleaving of the goroutines making first calls on  *)
(* a matcher or a walker, the build body runs to completion in at most one *)
(* of them, and the index every finished call went on to read is the one  *)
(* that build stored.                                                     *)
C5_BuiltOnce ==
    \A o \in Objects :
        /\ Cardinality(built[o]) <= 1
        /\ \A t \in Goroutines :
              (goroutines[t].obj = o /\ goroutines[t].pc = "done") =>
                  (goroutines[t].got.by # 0 /\ built[o] = {goroutines[t].got.by})

(* A goroutine found the index nil outside the lock, took the lock after *)
(* another one had built the index, and is leaving without building.     *)
C5_Witness ==
    \E t \in Goroutines :
        /\ goroutines[t].pc = "unlock"
        /\ built[goroutines[t].obj] # {}
        /\ t \notin built[goroutines[t].obj]

(* Every entry of the completed index of o is in what goroutine t read,   *)
(* and a walk read the whole list.                                        *)
ReadComplete(t, o) ==
    /\ \A j \in 1..Len(BuildIndex(o)) :
          \E i \in 1..Len(goroutines[t].got.entries) : goroutines[t].got.entries[i] = BuildIndex(o)[j]
    /\ o = "FieldWalker" => goroutines[t].got.entries = BuildIndex(o)

(* C27: under every interleaving of concurrent first calls no call        *)
(* answers from a partially built index (a name the completed index holds *)
(* is found, a walk enumerates the complete list), and the index is never *)
(* modified once it has been published.                                   *)
C27_NoPartialIndex ==
    /\ [](\A t \in Goroutines : goroutines[t].pc = "done" => ReadComplete(t, goroutines[t].obj))
    /\ [][\A o \in Objects : published[o].by # 0 => published'[o] = published[o]]_vars

(* The goroutines whose call of fn has returned. *)
Returned(fn) == {t \in Goroutines : At(t, fn, "returned")}

(* C28: under every interleaving of concurrent GetMatcher calls with one  *)
(* type on one creator, and of concurrent NewFieldWalker calls with one   *)
(* type and tag name, all calls return the same instance: one LoadOrStore *)
(* per key reports loaded = false, its candidate is the one stored, and   *)
(* the candidate of a caller that lost is returned to nobody.             *)
C28_OneInstancePerKey ==
    \A fn \in {"GetMatcher", "NewFieldWalker"} :
        /\ \A t, u \in Returned(fn) : callers[t].actual = callers[u].actual
        /\ Returned(fn) # {} => Cardinality({t \in Returned(fn) : ~callers[t].loaded}) = 1
        /\ \A t \in Returned(fn) :
              /\ callers[t].actual = (IF fn = "GetMatcher" THEN data.matcher ELSE data.walker)
              /\ callers[callers[t].actual].fn = fn
              /\ ~callers[callers[t].actual].loaded
              /\ callers[t].loaded <=> callers[t].actual # t

(* Two goroutines found the map of the walker cache nil and made one each, *)
(* and both have returned from NewFieldWalker.                             *)
C28_Witness ==
    \E t, u \in Returned("NewFieldWalker") :
        /\ t # u
        /\ callers[t].made
        /\ callers[u].made
        /\ callers[t].actual = callers[u].actual

====
